---- MODULE Spec2Model ----
(***************************************************************************)
(* h5.buffers: BufferQueueReader (a reader over a queue of Buffers),       *)
(* BufferReader (a reader over one Buffer) and the toBits helper.          *)
(*                                                                         *)
(* A Buffer is a sequence of bytes; JavaScript's 0-based index i is the    *)
(* TLA+ index i + 1.  A method is an operator from the reader (a record    *)
(* with the fields of the JavaScript object) and the arguments to a record *)
(* [r, threw, val]: the reader after the call, whether the call threw, and *)
(* the returned value.                                                     *)
(***************************************************************************)
EXTENDS Integers, Sequences, FiniteSets, TLC

VARIABLES
    qr,       \* the BufferQueueReader: [buffers, offset, length]
    br,       \* the BufferReader: [buffer, offset, length]
    ret,      \* the call on qr that has just returned: [op, threw, val]
    rret,     \* the call on br that has just returned: [op, threw, val]
    pushed,   \* history: every byte handed to qr, in push order
    shifted,  \* history: the values returned by the logged shift calls on qr
    bb,       \* the BufferBuilder: [length, data]
    nextTick  \* the number of callbacks that process.nextTick has queued

\* the calls' names and outcomes lead: every step changes ret.op, and results
\* of different calls (a number, a byte sequence, a string) are never compared
vars == <<ret.op, rret.op, ret.threw, rret.threw,
          qr, br, ret, rret, pushed, shifted, bb, nextTick>>

(***************************************************************************)
(* Bounds and input domains.                                               *)
(***************************************************************************)
\* the largest number of bytes handed to a reader in one behaviour
MaxLen == 4

\* byte values: zero (the string terminator) and all bits set
Bytes == {0, 255}

\* the value of isNaN's argument when parseInt finds no number
NaN == -1000

\* the value of an index that is not in a Buffer or an Array
undefined == -2000

\* the value of a byte of new Buffer(n) before anything is written to it: not
\* a value of Bytes
Filler == 170

BytesOfLen(n) == [1..n -> Bytes]

Chunks == UNION {BytesOfLen(n) : n \in 0..MaxLen}

\* count arguments for a reader of the given length: negative, zero, in
\* range, past the end, not a number
CountArgs(length) == (-1..(length + 1)) \cup {NaN}

\* bit counts around every byte boundary, and not a number
BitCountArgs(length) ==
    {c \in 0..((8 * length) + 1) : c % 8 \in {0, 1, 7}} \cup {NaN}

Encodings == {"utf8", "utf-666"}

(***************************************************************************)
(* JavaScript values.                                                      *)
(***************************************************************************)
\* parseInt(x, 10) of an integer is that integer; of a non-numeric value, NaN
parseInt(x) == x

isNaN(x) == x = NaN

\* buffer[i]: undefined outside the buffer
At(buffer, i) == IF (i + 1) \in DOMAIN buffer THEN buffer[i + 1] ELSE undefined

Min(a, b) == IF a < b THEN a ELSE b

\* Math.ceil(count / 8); NaN stays NaN
CeilDiv8(count) == IF isNaN(count) THEN NaN ELSE (count + 7) \div 8

RECURSIVE Pow2(_)
Pow2(k) == IF k = 0 THEN 1 ELSE 2 * Pow2(k - 1)

\* the bits of a byte counted from the most significant one
BitAnd_fromMostSignificant(byteValue, bitIndex) ==
    byteValue # undefined /\ (byteValue \div Pow2(7 - bitIndex)) % 2 = 1

\* Boolean(byteValue & Math.pow(2, bitIndex))
BitAnd(byteValue, bitIndex) ==
    byteValue # undefined /\ (byteValue \div Pow2(bitIndex)) % 2 = 1

\* An unsigned 32 bit number is kept as its two 16 bit halves, hi * 65536 + lo,
\* so that values from 2^31 on are represented.
U32(hi, lo) == [hi |-> hi, lo |-> lo]

\* ((value << 8) >>> 0): the low 32 bits of value * 256
Shl8(value) ==
    U32(((value.hi % 256) * 256) + (value.lo \div 256), (value.lo % 256) * 256)

\* (byteValue << shift) without the >>> 0: negative from 0x80 << 24 on
ShlByte_signed(byteValue, shift) ==
    LET b == IF byteValue = undefined THEN 0 ELSE byteValue IN
    CASE shift = 0 -> U32(0, b)
      [] shift = 8 -> U32(0, b * 256)
      [] shift = 16 -> U32(b, 0)
      [] OTHER -> U32(IF b >= 128 THEN (b * 256) - 65536 ELSE b * 256, 0)

\* ((byteValue << shift) >>> 0) for shift in {0, 8, 16, 24}; undefined << n is 0
ShlByte(byteValue, shift) ==
    LET b == IF byteValue = undefined THEN 0 ELSE byteValue IN
    CASE shift = 0 -> U32(0, b)
      [] shift = 8 -> U32(0, b * 256)
      [] shift = 16 -> U32(b, 0)
      [] OTHER -> U32(b * 256, 0)

\* a + b on numbers (no wrap: JavaScript numbers are doubles)
AddU32(a, b) ==
    U32(a.hi + b.hi + ((a.lo + b.lo) \div 65536), (a.lo + b.lo) % 65536)

\* a number below 2^31 as an integer
Num(value) == (value.hi * 65536) + value.lo

Return(r, val) == [r |-> r, threw |-> FALSE, val |-> val]

Throw(r) == [r |-> r, threw |-> TRUE, val |-> <<>>]

(***************************************************************************)
(* helpers.toBits                                                          *)
(***************************************************************************)
RECURSIVE toBitsLoop(_, _, _, _, _)
toBitsLoop(byteArray, bitCount, byteIndex, bitIndex, bitArray) ==
    IF byteIndex >= Len(byteArray) THEN bitArray
    ELSE IF bitIndex >= 8
         THEN toBitsLoop(byteArray, bitCount, byteIndex + 1, 0, bitArray)
    ELSE IF Len(bitArray) = bitCount
         THEN toBitsLoop(byteArray, bitCount, byteIndex + 1, 0, bitArray)
    ELSE toBitsLoop(byteArray, bitCount, byteIndex, bitIndex + 1,
                    Append(bitArray, BitAnd(At(byteArray, byteIndex), bitIndex)))

toBits(byteArray, bitCount) == toBitsLoop(byteArray, bitCount, 0, 0, <<>>)

(***************************************************************************)
(* Buffer.prototype.toString(encoding) of node: the string as its sequence *)
(* of character codes.  Bytes below 0x80 are the ASCII characters; the     *)
(* bytes 0x80 and 0xFF start no UTF-8 sequence and decode to U+FFFD.       *)
(***************************************************************************)
isEncoding(encoding) == encoding = "utf8"

toString(buffer) ==
    [i \in 1..Len(buffer) |-> IF buffer[i] < 128 THEN buffer[i] ELSE 65533]

(***************************************************************************)
(* BufferQueueReader                                                       *)
(***************************************************************************)
QueueReader(buffers, offset, length) ==
    [buffers |-> buffers, offset |-> offset, length |-> length]

\* function BufferQueueReader(): the fields before the constructor's pushes
BufferQueueReader_new == QueueReader(<<>>, 0, 0)

\* An argument of push is [isBuffer, bytes]; i is the loop index.
RECURSIVE BufferQueueReader_pushLoop(_, _, _)
BufferQueueReader_pushLoop(q, args, i) ==
    IF i > Len(args) THEN Return(q, undefined)
    ELSE IF ~args[i].isBuffer THEN Throw(q)
    ELSE IF Len(args[i].bytes) = 0
         THEN BufferQueueReader_pushLoop(q, args, i + 1)
    ELSE BufferQueueReader_pushLoop(
             QueueReader(Append(q.buffers, args[i].bytes), q.offset,
                         q.length + Len(args[i].bytes)),
             args, i + 1)

BufferQueueReader_push(q, args) == BufferQueueReader_pushLoop(q, args, 1)

\* the eviction loop with < for <=
RECURSIVE BufferQueueReader_skipLoop_strict(_)
BufferQueueReader_skipLoop_strict(q) ==
    IF Len(q.buffers) > 0 /\ Len(q.buffers[1]) < q.offset
    THEN BufferQueueReader_skipLoop_strict(
             QueueReader(Tail(q.buffers), q.offset - Len(q.buffers[1]), q.length))
    ELSE q

\* while (buffers.length > 0 && (buffer = buffers[0]).length <= offset)
RECURSIVE BufferQueueReader_skipLoop(_)
BufferQueueReader_skipLoop(q) ==
    IF Len(q.buffers) > 0 /\ Len(q.buffers[1]) <= q.offset
    THEN BufferQueueReader_skipLoop(
             QueueReader(Tail(q.buffers), q.offset - Len(q.buffers[1]), q.length))
    ELSE q

\* skip without the clamp of count to the reader's length
BufferQueueReader_skip_noClamp(q, hasCount, countArg) ==
    LET count == IF hasCount THEN parseInt(countArg) ELSE q.length IN
    IF isNaN(count) \/ count < 0 THEN Throw(q)
    ELSE Return(BufferQueueReader_skipLoop(
                    QueueReader(q.buffers, q.offset + count, q.length - count)),
                undefined)

\* hasCount: arguments.length is not 0
BufferQueueReader_skip(q, hasCount, countArg) ==
    LET count == IF hasCount THEN parseInt(countArg) ELSE q.length IN
    IF isNaN(count) \/ count < 0 THEN Throw(q)
    ELSE LET c == IF count > q.length THEN q.length ELSE count IN
         Return(BufferQueueReader_skipLoop(
                    QueueReader(q.buffers, q.offset + c, q.length - c)),
                undefined)

\* the first loop of indexOf: the buffer that holds the starting index
RECURSIVE BufferQueueReader_indexOfSeek(_, _, _)
BufferQueueReader_indexOfSeek(q, offset, index) ==
    IF index < Len(q.buffers) /\ offset >= Len(q.buffers[index + 1])
    THEN BufferQueueReader_indexOfSeek(q, offset - Len(q.buffers[index + 1]),
                                       index + 1)
    ELSE [offset |-> offset, index |-> index]

\* the second loop of indexOf: the scan
RECURSIVE BufferQueueReader_indexOfScan(_, _, _, _, _)
BufferQueueReader_indexOfScan(q, searchElement, offset, index, totalOffset) ==
    IF index >= Len(q.buffers) THEN -1
    ELSE IF At(q.buffers[index + 1], offset) = searchElement THEN totalOffset
    ELSE IF offset + 1 >= Len(q.buffers[index + 1])
         THEN BufferQueueReader_indexOfScan(q, searchElement, 0, index + 1,
                                            totalOffset + 1)
    ELSE BufferQueueReader_indexOfScan(q, searchElement, offset + 1, index,
                                       totalOffset + 1)

\* indexOf that starts at fromIndex in the first buffer, not at offset + fromIndex
BufferQueueReader_indexOf_noOffset(q, searchArg, hasFrom, fromArg) ==
    LET searchElement == parseInt(searchArg)
        fromIndex == IF hasFrom THEN parseInt(fromArg) ELSE 0
    IN
    IF isNaN(searchElement) \/ searchElement < 0 \/ searchElement > 255
    THEN Throw(q)
    ELSE IF isNaN(fromIndex) \/ fromIndex < 0 \/ fromIndex > q.length
    THEN Throw(q)
    ELSE LET at == BufferQueueReader_indexOfSeek(q, fromIndex, 0) IN
         Return(q, BufferQueueReader_indexOfScan(q, searchElement, at.offset,
                                                 at.index, fromIndex))

\* hasFrom: arguments.length >= 2
BufferQueueReader_indexOf(q, searchArg, hasFrom, fromArg) ==
    LET searchElement == parseInt(searchArg)
        fromIndex == IF hasFrom THEN parseInt(fromArg) ELSE 0
    IN
    IF isNaN(searchElement) \/ searchElement < 0 \/ searchElement > 255
    THEN Throw(q)
    ELSE IF isNaN(fromIndex) \/ fromIndex < 0 \/ fromIndex > q.length
    THEN Throw(q)
    ELSE LET at == BufferQueueReader_indexOfSeek(q, q.offset + fromIndex, 0) IN
         Return(q, BufferQueueReader_indexOfScan(q, searchElement, at.offset,
                                                 at.index, fromIndex))

\* shiftStep with the buffer that was read to its end left in the queue
BufferQueueReader_shiftStep_noShift(q) ==
    IF Len(q.buffers) = 0
    THEN [q |-> QueueReader(q.buffers, q.offset + 1, q.length),
          byteValue |-> undefined, threw |-> TRUE]
    ELSE LET buffer == q.buffers[1] IN
         [q |-> IF q.offset + 1 >= Len(buffer)
                THEN QueueReader(q.buffers, q.offset + 1 - Len(buffer), q.length)
                ELSE QueueReader(q.buffers, q.offset + 1, q.length),
          byteValue |-> At(buffer, q.offset), threw |-> FALSE]

\* buffers[0][offset++], then the eviction of a buffer read to its end; with no
\* buffer left the property access throws after offset was incremented
BufferQueueReader_shiftStep(q) ==
    IF Len(q.buffers) = 0
    THEN [q |-> QueueReader(q.buffers, q.offset + 1, q.length),
          byteValue |-> undefined, threw |-> TRUE]
    ELSE LET buffer == q.buffers[1] IN
         [q |-> IF q.offset + 1 >= Len(buffer)
                THEN QueueReader(Tail(q.buffers), q.offset + 1 - Len(buffer),
                                 q.length)
                ELSE QueueReader(q.buffers, q.offset + 1, q.length),
          byteValue |-> At(buffer, q.offset), threw |-> FALSE]

BufferQueueReader_shiftByte(q) ==
    IF q.length = 0 THEN Throw(q)
    ELSE LET s == BufferQueueReader_shiftStep(
                      QueueReader(q.buffers, q.offset, q.length - 1)) IN
         IF s.threw
         THEN Throw(QueueReader(q.buffers, q.offset + 1, q.length))
         ELSE Return(s.q, s.byteValue)

\* while (count--)
RECURSIVE BufferQueueReader_shiftBytesLoop(_, _, _)
BufferQueueReader_shiftBytesLoop(q, count, byteArray) ==
    IF count = 0 THEN Return(q, byteArray)
    ELSE LET s == BufferQueueReader_shiftStep(q) IN
         IF s.threw THEN Throw(s.q)
         ELSE BufferQueueReader_shiftBytesLoop(s.q, count - 1,
                                               Append(byteArray, s.byteValue))

BufferQueueReader_shiftBytes(q, countArg) ==
    LET count == parseInt(countArg) IN
    IF isNaN(count) \/ count < 1 \/ count > q.length THEN Throw(q)
    ELSE BufferQueueReader_shiftBytesLoop(
             QueueReader(q.buffers, q.offset, q.length - count), count, <<>>)

BufferQueueReader_shiftBits(q, count) ==
    LET b == BufferQueueReader_shiftBytes(q, CeilDiv8(count)) IN
    IF b.threw THEN b ELSE Return(b.r, toBits(b.val, count))

\* new Buffer(this.shiftBytes(count))
BufferQueueReader_shiftBuffer(q, count) == BufferQueueReader_shiftBytes(q, count)

\* this.shiftBuffer(length).toString(encoding || 'utf8')
BufferQueueReader_shiftString(q, length, encoding) ==
    LET b == BufferQueueReader_shiftBuffer(q, length) IN
    IF b.threw THEN b
    ELSE IF ~isEncoding(encoding) THEN Throw(b.r)
    ELSE Return(b.r, toString(b.val))

\* shiftZeroString that takes the rest of the reader when it finds no zero byte
BufferQueueReader_shiftZeroString_toEnd(q, encoding) ==
    LET zeroIndex == BufferQueueReader_indexOf(q, 0, FALSE, 0).val
        length == IF zeroIndex = -1 THEN q.length ELSE zeroIndex
        s == BufferQueueReader_shiftString(q, length, encoding)
    IN
    IF s.threw THEN s
    ELSE Return(BufferQueueReader_skip(s.r, TRUE, 1).r, s.val)

BufferQueueReader_shiftZeroString(q, encoding) ==
    LET zeroIndex == BufferQueueReader_indexOf(q, 0, FALSE, 0).val IN
    IF zeroIndex = -1 THEN Return(q, <<>>)
    ELSE LET s == BufferQueueReader_shiftString(q, zeroIndex, encoding) IN
         IF s.threw THEN s
         ELSE Return(BufferQueueReader_skip(s.r, TRUE, 1).r, s.val)

\* the loop of shiftUInt with the two byte orders exchanged
RECURSIVE shiftUIntLoop_swapped(_, _, _, _, _)
shiftUIntLoop_swapped(q, size, littleEndian, value, shift) ==
    IF size = 0 THEN Return(q, value)
    ELSE LET s == BufferQueueReader_shiftStep(q) IN
         IF s.threw THEN Throw(s.q)
         ELSE shiftUIntLoop_swapped(
                  s.q, size - 1, littleEndian,
                  IF ~littleEndian
                  THEN AddU32(value, ShlByte(s.byteValue, shift + 8))
                  ELSE AddU32(Shl8(value), ShlByte(s.byteValue, 0)),
                  shift + 8)

\* the loop of shiftUInt: shift is the last shift applied (-8 before the first)
RECURSIVE shiftUIntLoop(_, _, _, _, _)
shiftUIntLoop(q, size, littleEndian, value, shift) ==
    IF size = 0 THEN Return(q, value)
    ELSE LET s == BufferQueueReader_shiftStep(q) IN
         IF s.threw THEN Throw(s.q)
         ELSE shiftUIntLoop(
                  s.q, size - 1, littleEndian,
                  IF littleEndian
                  THEN AddU32(value, ShlByte(s.byteValue, shift + 8))
                  ELSE AddU32(Shl8(value), ShlByte(s.byteValue, 0)),
                  shift + 8)

\* shiftUInt that takes size from the length before it checks the length
shiftUInt_lateCheck(reader, size, littleEndian) ==
    IF reader.length < size
    THEN Throw(QueueReader(reader.buffers, reader.offset, reader.length - size))
    ELSE shiftUIntLoop(
             QueueReader(reader.buffers, reader.offset, reader.length - size),
             size, littleEndian, U32(0, 0), -8)

shiftUInt(reader, size, littleEndian) ==
    IF reader.length < size THEN Throw(reader)
    ELSE shiftUIntLoop(
             QueueReader(reader.buffers, reader.offset, reader.length - size),
             size, littleEndian, U32(0, 0), -8)

\* uInt8 & 0x80 ? (0x100 - uInt8) * -1 : uInt8
toInt8(uInt8) ==
    IF uInt8 = undefined THEN undefined
    ELSE IF (uInt8 \div 128) % 2 = 1 THEN (256 - uInt8) * (-1) ELSE uInt8

\* toInt16 that returns the distance to 0x10000 without its sign
toInt16_noSign(uInt16) ==
    IF (uInt16 \div 32768) % 2 = 1 THEN 65536 - uInt16 ELSE uInt16

\* uInt16 & 0x8000 ? (0x10000 - uInt16) * -1 : uInt16
toInt16(uInt16) ==
    IF (uInt16 \div 32768) % 2 = 1 THEN (65536 - uInt16) * (-1) ELSE uInt16

\* uInt32 & 0x80000000 ? (0x100000000 - uInt32) * -1 : uInt32
toInt32(uInt32) ==
    IF (uInt32.hi \div 32768) % 2 = 1
    THEN ((uInt32.hi - 65536) * 65536) + uInt32.lo
    ELSE Num(uInt32)

BufferQueueReader_shiftInt8(q) ==
    LET b == BufferQueueReader_shiftByte(q) IN
    IF b.threw THEN b ELSE Return(b.r, toInt8(b.val))

BufferQueueReader_shiftInt16(q, littleEndian) ==
    LET u == shiftUInt(q, 2, littleEndian) IN
    IF u.threw THEN u ELSE Return(u.r, toInt16(Num(u.val)))

BufferQueueReader_shiftInt32(q, littleEndian) ==
    LET u == shiftUInt(q, 4, littleEndian) IN
    IF u.threw THEN u ELSE Return(u.r, toInt32(u.val))

BufferQueueReader_shiftUInt8(q) == BufferQueueReader_shiftByte(q)

BufferQueueReader_shiftUInt16(q, littleEndian) ==
    LET u == shiftUInt(q, 2, littleEndian) IN
    IF u.threw THEN u ELSE Return(u.r, Num(u.val))

BufferQueueReader_shiftUInt32(q, littleEndian) == shiftUInt(q, 4, littleEndian)

(***************************************************************************)
(* node's Buffer.prototype.read[U]Int{8,16,32}{BE,LE}(offset), as the      *)
(* BufferReader calls them (noAssert is not passed: a read that does not   *)
(* lie within the buffer throws).                                          *)
(***************************************************************************)
Buffer_readUInt(buffer, offset, size, littleEndian) ==
    IF offset < 0 \/ offset + size > Len(buffer) THEN Throw(buffer)
    ELSE LET b(i) == buffer[offset + 1 + (IF littleEndian THEN size - 1 - i ELSE i)]
         IN Return(buffer,
                   CASE size = 1 -> U32(0, b(0))
                     [] size = 2 -> U32(0, (b(0) * 256) + b(1))
                     [] OTHER -> U32((b(0) * 256) + b(1), (b(2) * 256) + b(3)))

Buffer_readInt(buffer, offset, size, littleEndian) ==
    LET u == Buffer_readUInt(buffer, offset, size, littleEndian)
    IN
    IF u.threw THEN u
    ELSE Return(buffer,
                CASE size = 1 -> IF u.val.lo >= 128 THEN u.val.lo - 256
                                 ELSE u.val.lo
                  [] size = 2 -> IF u.val.lo >= 32768 THEN u.val.lo - 65536
                                 ELSE u.val.lo
                  [] OTHER -> IF u.val.hi >= 32768
                              THEN ((u.val.hi - 65536) * 65536) + u.val.lo
                              ELSE Num(u.val))

(***************************************************************************)
(* BufferReader                                                            *)
(***************************************************************************)
Reader(buffer, offset, length) ==
    [buffer |-> buffer, offset |-> offset, length |-> length]

\* function BufferReader(buffer)
BufferReader_new(buffer) == Reader(buffer, 0, Len(buffer))

\* skip without the clamp of count to the reader's length
BufferReader_skip_noClamp(r, hasCount, countArg) ==
    LET count == IF ~hasCount THEN r.length ELSE parseInt(countArg) IN
    IF isNaN(count) \/ count < 0 THEN Throw(r)
    ELSE Return(Reader(r.buffer, r.offset + count, r.length - count), undefined)

\* skip that takes every count for the reader's length
BufferReader_skip_toEnd(r, hasCount, countArg) ==
    LET count == IF ~hasCount THEN r.length ELSE parseInt(countArg) IN
    IF isNaN(count) \/ count < 0 THEN Throw(r)
    ELSE Return(Reader(r.buffer, r.offset + r.length, 0), undefined)

BufferReader_skip(r, hasCount, countArg) ==
    LET count == IF ~hasCount THEN r.length ELSE parseInt(countArg) IN
    IF isNaN(count) \/ count < 0 THEN Throw(r)
    ELSE LET c == IF count > r.length THEN r.length ELSE count IN
         Return(Reader(r.buffer, r.offset + c, r.length - c), undefined)

\* for (var i = this.offset + fromIndex; i < this.length; ++i)
RECURSIVE BufferReader_indexOfLoop(_, _, _)
BufferReader_indexOfLoop(r, searchElement, i) ==
    IF ~(i < r.length) THEN -1
    ELSE IF At(r.buffer, i) = searchElement THEN i - r.offset
    ELSE BufferReader_indexOfLoop(r, searchElement, i + 1)

BufferReader_indexOf(r, searchArg, hasFrom, fromArg) ==
    LET searchElement == parseInt(searchArg)
        fromIndex == IF hasFrom THEN parseInt(fromArg) ELSE 0
    IN
    IF isNaN(searchElement) \/ searchElement < 0 \/ searchElement > 255
    THEN Throw(r)
    ELSE IF isNaN(fromIndex) \/ fromIndex < 0 \/ fromIndex > r.length
    THEN Throw(r)
    ELSE Return(r, BufferReader_indexOfLoop(r, searchElement,
                                            r.offset + fromIndex))

BufferReader_shiftByte(r) ==
    IF r.length = 0 THEN Throw(r)
    ELSE Return(Reader(r.buffer, r.offset + 1, r.length - 1),
                At(r.buffer, r.offset))

\* while (count--) byteArray.push(this.buffer[this.offset++])
BufferReader_shiftBytes(r, countArg) ==
    LET count == parseInt(countArg) IN
    IF isNaN(count) \/ count < 1 \/ count > r.length THEN Throw(r)
    ELSE Return(Reader(r.buffer, r.offset + count, r.length - count),
                [i \in 1..count |-> At(r.buffer, r.offset + i - 1)])

BufferReader_shiftBits(r, count) ==
    LET b == BufferReader_shiftBytes(r, CeilDiv8(count)) IN
    IF b.threw THEN b ELSE Return(b.r, toBits(b.val, count))

\* new Buffer(this.shiftBytes(count))
BufferReader_shiftBuffer(r, count) == BufferReader_shiftBytes(r, count)

\* this.shiftBuffer(length).toString(encoding || 'utf8')
BufferReader_shiftString(r, length, encoding) ==
    LET b == BufferReader_shiftBuffer(r, length) IN
    IF b.threw THEN b
    ELSE IF ~isEncoding(encoding) THEN Throw(b.r)
    ELSE Return(b.r, toString(b.val))

BufferReader_shiftZeroString(r, encoding) ==
    LET zeroIndex == BufferReader_indexOf(r, 0, FALSE, 0).val IN
    IF zeroIndex = -1 THEN Return(r, <<>>)
    ELSE LET s == BufferReader_shiftString(r, zeroIndex, encoding) IN
         IF s.threw THEN s
         ELSE Return(BufferReader_skip(s.r, TRUE, 1).r, s.val)

\* this.buffer.readInt8(this.offset + offset) and its siblings
BufferReader_readInt(r, offset, size, littleEndian) ==
    LET v == Buffer_readInt(r.buffer, r.offset + offset, size, littleEndian) IN
    IF v.threw THEN Throw(r) ELSE Return(r, v.val)

BufferReader_readUInt(r, offset, size, littleEndian) ==
    LET v == Buffer_readUInt(r.buffer, r.offset + offset, size, littleEndian) IN
    IF v.threw THEN Throw(r) ELSE Return(r, v.val)

\* var value = this.readInt16(0, littleEndian); this.skip(2); return value;
BufferReader_shiftInt(r, size, littleEndian) ==
    LET v == BufferReader_readInt(r, 0, size, littleEndian) IN
    IF v.threw THEN v
    ELSE Return(BufferReader_skip(r, TRUE, size).r, v.val)

BufferReader_shiftUInt(r, size, littleEndian) ==
    LET v == BufferReader_readUInt(r, 0, size, littleEndian) IN
    IF v.threw THEN v
    ELSE Return(BufferReader_skip(r, TRUE, size).r, v.val)

BufferReader_shiftInt8(r) == BufferReader_shiftInt(r, 1, FALSE)

BufferReader_shiftInt16(r, littleEndian) == BufferReader_shiftInt(r, 2, littleEndian)

BufferReader_shiftInt32(r, littleEndian) == BufferReader_shiftInt(r, 4, littleEndian)

BufferReader_shiftUInt8(r) ==
    LET u == BufferReader_shiftUInt(r, 1, FALSE) IN
    IF u.threw THEN u ELSE Return(u.r, Num(u.val))

BufferReader_shiftUInt16(r, littleEndian) ==
    LET u == BufferReader_shiftUInt(r, 2, littleEndian) IN
    IF u.threw THEN u ELSE Return(u.r, Num(u.val))

BufferReader_shiftUInt32(r, littleEndian) == BufferReader_shiftUInt(r, 4, littleEndian)

(***************************************************************************)
(* The values handed to the numeric push methods.  parseInt(value, 10)     *)
(* converts its argument to a string and reads the decimal integer at the  *)
(* start of it, so a value is kept with the string JavaScript converts it  *)
(* to (a sequence of characters), next to what it is: its type, and for a  *)
(* number its integer part, whether it has a fraction, and whether it is   *)
(* too large for its integer part to be held (huge).  For a value that is  *)
(* not a number, integer is the number it converts to: 12 for '12', NaN    *)
(* for 'foo' and '12abc'.                                                  *)
(***************************************************************************)
Digits == <<"0", "1", "2", "3", "4", "5", "6", "7", "8", "9">>

RECURSIVE ToDecimal(_)
ToDecimal(n) ==
    IF n < 10 THEN <<Digits[n + 1]>>
    ELSE Append(ToDecimal(n \div 10), Digits[(n % 10) + 1])

\* Number.prototype.toString of an integer below 1e21 in size
Number_toString(n) ==
    IF n >= 0 THEN ToDecimal(n)
    ELSE LET last == (10 - (n % 10)) % 10
             rest == 0 - ((n + last) \div 10)
         IN  <<"-">> \o (IF rest = 0 THEN <<>> ELSE ToDecimal(rest))
                     \o <<Digits[last + 1]>>

JSValue(type, string, integer, fraction, huge) ==
    [type |-> type, string |-> string, integer |-> integer,
     fraction |-> fraction, huge |-> huge]

\* an integer
Number(n) == JSValue("number", Number_toString(n), n, FALSE, FALSE)

\* integer.fraction, as in 12.34: a number from 1e-6 to 1e21 in size
Decimal(integer, fraction) ==
    JSValue("number", Number_toString(integer) \o <<".">> \o fraction,
            integer, TRUE, FALSE)

\* 1e-7: numbers below 1e-6 convert to exponent notation
OneE_7 == JSValue("number", <<"1", "e", "-", "7">>, 0, TRUE, FALSE)

\* 1e21: numbers from 1e21 on convert to exponent notation
OneE21 == JSValue("number", <<"1", "e", "+", "2", "1">>, 0, FALSE, TRUE)

NumberNaN == JSValue("number", <<"N", "a", "N">>, NaN, FALSE, FALSE)

Undefined ==
    JSValue("undefined", <<"u", "n", "d", "e", "f", "i", "n", "e", "d">>, NaN,
            FALSE, FALSE)

\* the strings 'foo', '12' and '12abc'
StringFoo == JSValue("string", <<"f", "o", "o">>, NaN, FALSE, FALSE)

String12 == JSValue("string", <<"1", "2">>, 12, FALSE, FALSE)

String12abc == JSValue("string", <<"1", "2", "a", "b", "c">>, NaN, FALSE, FALSE)

IsDigit(c) == \E d \in 1..10 : Digits[d] = c

DigitOf(c) == (CHOOSE d \in 1..10 : Digits[d] = c) - 1

\* the digits at the start of string from position i on, added to value
RECURSIVE parseIntDigits(_, _, _, _)
parseIntDigits(string, i, negative, value) ==
    IF i > Len(string) \/ ~IsDigit(string[i]) THEN value
    ELSE parseIntDigits(string, i + 1, negative,
                        IF negative THEN (value * 10) - DigitOf(string[i])
                        ELSE (value * 10) + DigitOf(string[i]))

\* parseInt(value, 10): an optional sign and the digits that follow it; NaN
\* when no digit follows
JS_parseInt(value) ==
    LET string == value.string
        signed == Len(string) > 0 /\ string[1] \in {"-", "+"}
        first == IF signed THEN 2 ELSE 1
    IN  IF first > Len(string) \/ ~IsDigit(string[first]) THEN NaN
        ELSE parseIntDigits(string, first, signed /\ string[1] = "-", 0)

(***************************************************************************)
(* BufferBuilder.  An element of data is the function that a push method   *)
(* stored: the method, and the value and littleEndian that the function    *)
(* closes over.                                                            *)
(***************************************************************************)
Builder(length, data) == [length |-> length, data |-> data]

\* function BufferBuilder()
BufferBuilder_new == Builder(0, <<>>)

\* this.data.push(function ...); this.length += byteCount; return this
Pushed(b, byteCount, method, value, littleEndian) ==
    Return(Builder(b.length + byteCount,
                   Append(b.data, [method |-> method, value |-> value,
                                   littleEndian |-> littleEndian])),
           undefined)

\* parseIntValue(value, max, min): the parsed value, or NaN when it throws
parseIntValue(value, max, min) ==
    LET v == JS_parseInt(value) IN
    IF isNaN(v) \/ v < min \/ v > max THEN NaN ELSE v

\* 0xFFFFFFFF is above the integers of the model: no value that parseInt
\* returns here is above it, and `value > max` is false
UInt32Max == 2147483647

BufferBuilder_pushBits(b, bitsArray) ==
    IF ~bitsArray.isArray THEN Throw(b)
    ELSE IF Len(bitsArray.elements) = 0 THEN Return(b, undefined)
    ELSE Pushed(b, CeilDiv8(Len(bitsArray.elements)), "pushBits",
                bitsArray.elements, FALSE)

BufferBuilder_pushByte(b, byteArg) ==
    LET byteValue == JS_parseInt(byteArg) IN
    IF isNaN(byteValue) \/ byteValue < 0 \/ byteValue > 255 THEN Throw(b)
    ELSE Pushed(b, 1, "pushByte", byteValue, FALSE)

BufferBuilder_pushBytes(b, bytesArray) ==
    IF ~bytesArray.isArray THEN Throw(b)
    ELSE IF Len(bytesArray.elements) = 0 THEN Return(b, undefined)
    ELSE Pushed(b, Len(bytesArray.elements), "pushBytes", bytesArray.elements,
                FALSE)

BufferBuilder_pushBuffer(b, sourceBuffer) ==
    IF ~sourceBuffer.isBuffer THEN Throw(b)
    ELSE IF Len(sourceBuffer.bytes) = 0 THEN Return(b, undefined)
    ELSE Pushed(b, Len(sourceBuffer.bytes), "pushBuffer", sourceBuffer.bytes,
                FALSE)

\* the UTF-8 bytes of a string of character codes below 0x800
RECURSIVE Utf8(_)
Utf8(string) ==
    IF string = <<>> THEN <<>>
    ELSE (IF Head(string) < 128 THEN <<Head(string)>>
          ELSE <<192 + (Head(string) \div 64), 128 + (Head(string) % 64)>>)
         \o Utf8(Tail(string))

\* Buffer.byteLength(string, encoding): an encoding that node does not know
\* counts as 'utf8'
Buffer_byteLength(string, encoding) == Len(Utf8(string))

\* encoding is undefined when the caller gave none: encoding = 'utf8'
BufferBuilder_pushString(b, stringValue, encodingArg) ==
    LET encoding == IF encodingArg = "undefined" THEN "utf8" ELSE encodingArg IN
    IF ~stringValue.isString THEN Throw(b)
    ELSE IF Len(stringValue.chars) = 0 THEN Return(b, undefined)
    ELSE Pushed(b, Buffer_byteLength(stringValue.chars, encoding), "pushString",
                [string |-> stringValue.chars, encoding |-> encoding], FALSE)

\* pushZeroString that appends nothing for an empty string
BufferBuilder_pushZeroString_noZero(b, stringValue, encodingArg) ==
    LET pushed1 == BufferBuilder_pushString(b, stringValue, encodingArg) IN
    IF pushed1.threw \/ Len(stringValue.chars) = 0 THEN pushed1
    ELSE BufferBuilder_pushByte(pushed1.r, Number(0))

\* this.pushString(stringValue, encoding).pushByte(0)
BufferBuilder_pushZeroString(b, stringValue, encodingArg) ==
    LET pushed1 == BufferBuilder_pushString(b, stringValue, encodingArg) IN
    IF pushed1.threw THEN pushed1
    ELSE BufferBuilder_pushByte(pushed1.r, Number(0))

BufferBuilder_pushInt8(b, numberArg) ==
    LET numberValue == parseIntValue(numberArg, 127, -128) IN
    IF isNaN(numberValue) THEN Throw(b)
    ELSE Pushed(b, 1, "pushInt8", numberValue, FALSE)

BufferBuilder_pushInt16(b, numberArg, littleEndian) ==
    LET numberValue == parseIntValue(numberArg, 32767, -32768) IN
    IF isNaN(numberValue) THEN Throw(b)
    ELSE Pushed(b, 2, "pushInt16", numberValue, littleEndian)

BufferBuilder_pushInt32(b, numberArg, littleEndian) ==
    LET numberValue == parseIntValue(numberArg, 2147483647, -2147483647 - 1) IN
    IF isNaN(numberValue) THEN Throw(b)
    ELSE Pushed(b, 4, "pushInt32", numberValue, littleEndian)

BufferBuilder_pushUInt8(b, numberArg) ==
    LET numberValue == parseIntValue(numberArg, 255, 0) IN
    IF isNaN(numberValue) THEN Throw(b)
    ELSE Pushed(b, 1, "pushUInt8", numberValue, FALSE)

BufferBuilder_pushUInt16(b, numberArg, littleEndian) ==
    LET numberValue == parseIntValue(numberArg, 65535, 0) IN
    IF isNaN(numberValue) THEN Throw(b)
    ELSE Pushed(b, 2, "pushUInt16", numberValue, littleEndian)

BufferBuilder_pushUInt32(b, numberArg, littleEndian) ==
    LET numberValue == parseIntValue(numberArg, UInt32Max, 0) IN
    IF isNaN(numberValue) THEN Throw(b)
    ELSE Pushed(b, 4, "pushUInt32", numberValue, littleEndian)

(***************************************************************************)
(* The writes of node's Buffer that the stored functions make.             *)
(***************************************************************************)
\* buffer[offset] = byteValue; outside the buffer the assignment is dropped
SetByte(buffer, offset, byteValue) ==
    [i \in 1..Len(buffer) |-> IF i = offset + 1 THEN byteValue ELSE buffer[i]]

\* buffer[offset + i] = bytes[i] for every i
RECURSIVE SetBytes(_, _, _)
SetBytes(buffer, offset, bytes) ==
    IF bytes = <<>> THEN buffer
    ELSE SetBytes(SetByte(buffer, offset, Head(bytes)), offset + 1, Tail(bytes))

\* the byte that buffer[i] = value stores: the low 8 bits of an integer, 0 for
\* what is not a number
ToUint8(value) == IF isNaN(value) \/ value = undefined THEN 0 ELSE value % 256

\* buffer.writeUInt8(value, offset, true)
Buffer_writeUInt8(buffer, value, offset) == SetByte(buffer, offset, value)

\* buffer.writeInt8(value, offset, true)
Buffer_writeInt8(buffer, value, offset) ==
    SetByte(buffer, offset, IF value >= 0 THEN value ELSE 255 + value + 1)

\* writeUInt16 that ignores the byte order asked for
Buffer_writeUInt16_alwaysBigEndian(buffer, value, offset, littleEndian) ==
    SetByte(SetByte(buffer, offset, value \div 256), offset + 1, value % 256)

\* buffer.writeUInt16BE(value, offset, true) and writeUInt16LE
Buffer_writeUInt16(buffer, value, offset, littleEndian) ==
    IF littleEndian
    THEN SetByte(SetByte(buffer, offset, value % 256), offset + 1, value \div 256)
    ELSE SetByte(SetByte(buffer, offset, value \div 256), offset + 1, value % 256)

\* buffer.writeInt16BE(value, offset, true) and writeInt16LE
Buffer_writeInt16(buffer, value, offset, littleEndian) ==
    Buffer_writeUInt16(buffer, IF value >= 0 THEN value ELSE 65535 + value + 1,
                       offset, littleEndian)

\* the four bytes of value modulo 2^32, least significant first
Bytes32(value) ==
    <<value % 256, (value \div 256) % 256, (value \div 65536) % 256,
      (value \div 16777216) % 256>>

Reverse(s) == [i \in 1..Len(s) |-> s[Len(s) + 1 - i]]

\* buffer.writeUInt32BE(value, offset, true) and writeUInt32LE
Buffer_writeUInt32(buffer, value, offset, littleEndian) ==
    SetBytes(buffer, offset,
             IF littleEndian THEN Bytes32(value) ELSE Reverse(Bytes32(value)))

\* buffer.writeInt32BE(value, offset, true) and writeInt32LE: a negative value
\* is written as 0xffffffff + value + 1, which is value modulo 2^32
Buffer_writeInt32(buffer, value, offset, littleEndian) ==
    Buffer_writeUInt32(buffer, value, offset, littleEndian)

\* the stored function of pushBits without the bit that starts a new byte
RECURSIVE WriteBits_lostBit(_, _, _, _, _, _)
WriteBits_lostBit(bitsArray, i, bitIndex, byteValue, buffer, offset) ==
    IF i >= Len(bitsArray) THEN SetByte(buffer, offset, byteValue)
    ELSE IF bitIndex # 0 /\ bitIndex % 8 = 0
         THEN WriteBits_lostBit(bitsArray, i + 1, 1, 0,
                                SetByte(buffer, offset, byteValue), offset + 1)
    ELSE IF bitsArray[i + 1]
         THEN WriteBits_lostBit(bitsArray, i + 1, bitIndex + 1,
                                byteValue + Pow2(bitIndex), buffer, offset)
    ELSE WriteBits_lostBit(bitsArray, i + 1, bitIndex + 1, byteValue, buffer,
                           offset)

\* the stored function of pushBits that also stores the byte that the bits
\* after a full byte would go to
RECURSIVE WriteBits_nextByte(_, _, _, _, _, _)
WriteBits_nextByte(bitsArray, i, bitIndex, byteValue, buffer, offset) ==
    IF i >= Len(bitsArray)
    THEN IF bitIndex % 8 = 0
         THEN SetByte(SetByte(buffer, offset, byteValue), offset + 1, 0)
         ELSE SetByte(buffer, offset, byteValue)
    ELSE IF bitIndex # 0 /\ bitIndex % 8 = 0
         THEN WriteBits_nextByte(bitsArray, i + 1, 1,
                                 IF bitsArray[i + 1] THEN 1 ELSE 0,
                                 SetByte(buffer, offset, byteValue), offset + 1)
    ELSE IF bitsArray[i + 1]
         THEN WriteBits_nextByte(bitsArray, i + 1, bitIndex + 1,
                                 byteValue + Pow2(bitIndex), buffer, offset)
    ELSE WriteBits_nextByte(bitsArray, i + 1, bitIndex + 1, byteValue, buffer,
                            offset)

\* the function that pushBits stored: i, bitIndex and byteValue are its loop
\* variables; the result is the buffer after the last byte is stored
RECURSIVE WriteBits(_, _, _, _, _, _)
WriteBits(bitsArray, i, bitIndex, byteValue, buffer, offset) ==
    IF i >= Len(bitsArray) THEN SetByte(buffer, offset, byteValue)
    ELSE IF bitIndex # 0 /\ bitIndex % 8 = 0
         THEN WriteBits(bitsArray, i + 1, 1, IF bitsArray[i + 1] THEN 1 ELSE 0,
                        SetByte(buffer, offset, byteValue), offset + 1)
    ELSE IF bitsArray[i + 1]
         THEN WriteBits(bitsArray, i + 1, bitIndex + 1,
                        byteValue + Pow2(bitIndex), buffer, offset)
    ELSE WriteBits(bitsArray, i + 1, bitIndex + 1, byteValue, buffer, offset)

\* push(buffer, offset) of one stored function: the buffer it leaves, the
\* number of bytes it returns, and whether it threw
Written(buffer, count) == [buffer |-> buffer, count |-> count, threw |-> FALSE]

WriteThrew(buffer) == [buffer |-> buffer, count |-> 0, threw |-> TRUE]

Write(push, buffer, offset) ==
    CASE push.method = "pushBits" ->
            Written(WriteBits(push.value, 0, 0, 0, buffer, offset),
                    CeilDiv8(Len(push.value)))
      [] push.method = "pushByte" ->
            Written(SetByte(buffer, offset, push.value), 1)
      [] push.method = "pushBytes" ->
            Written(SetBytes(buffer, offset,
                             [i \in 1..Len(push.value) |-> ToUint8(push.value[i])]),
                    Len(push.value))
      [] push.method = "pushBuffer" ->
            Written(SetBytes(buffer, offset, push.value), Len(push.value))
      [] push.method = "pushString" ->
            IF ~isEncoding(push.value.encoding) THEN WriteThrew(buffer)
            ELSE Written(SetBytes(buffer, offset, Utf8(push.value.string)),
                         Len(Utf8(push.value.string)))
      [] push.method = "pushInt8" ->
            Written(Buffer_writeInt8(buffer, push.value, offset), 1)
      [] push.method = "pushInt16" ->
            Written(Buffer_writeInt16(buffer, push.value, offset,
                                      push.littleEndian), 2)
      [] push.method = "pushInt32" ->
            Written(Buffer_writeInt32(buffer, push.value, offset,
                                      push.littleEndian), 4)
      [] push.method = "pushUInt8" ->
            Written(Buffer_writeUInt8(buffer, push.value, offset), 1)
      [] push.method = "pushUInt16" ->
            Written(Buffer_writeUInt16(buffer, push.value, offset,
                                       push.littleEndian), 2)
      [] OTHER ->
            Written(Buffer_writeUInt32(buffer, push.value, offset,
                                       push.littleEndian), 4)

\* this.data.reduce(function(offset, push) { return offset + push(buffer, offset); }, 0)
RECURSIVE BufferBuilder_reduce(_, _, _, _, _)
BufferBuilder_reduce(b, data, i, buffer, offset) ==
    IF i > Len(data) THEN Return(b, buffer)
    ELSE LET written == Write(data[i], buffer, offset) IN
         IF written.threw THEN Throw(b)
         ELSE BufferBuilder_reduce(b, data, i + 1, written.buffer,
                                   offset + written.count)

\* toBuffer that empties the builder it has written out
BufferBuilder_toBuffer_consuming(b) ==
    LET result == BufferBuilder_reduce(b, b.data, 1,
                                       [i \in 1..b.length |-> Filler], 0)
    IN  [result EXCEPT !.r = BufferBuilder_new]

\* new Buffer(this.length), filled by the stored functions
BufferBuilder_toBuffer(b) ==
    BufferBuilder_reduce(b, b.data, 1, [i \in 1..b.length |-> Filler], 0)

(***************************************************************************)
(* The state machine.  Both readers receive the same calls; push exists on *)
(* the BufferQueueReader alone.                                            *)
(***************************************************************************)
\* data cut into chunks after the (1-based) positions in cuts
RECURSIVE Split(_, _, _)
Split(data, cuts, from) ==
    IF from > Len(data) THEN <<>>
    ELSE LET ends == {e \in from..Len(data) : e \in cuts \/ e = Len(data)}
             end == CHOOSE e \in ends : \A f \in ends : e <= f
         IN <<SubSeq(data, from, end)>> \o Split(data, cuts, end + 1)

BufferArgs(chunks) ==
    [i \in 1..Len(chunks) |-> [isBuffer |-> TRUE, bytes |-> chunks[i]]]

Called(op, result) == [op |-> op, threw |-> result.threw, val |-> result.val]

\* no call has returned that the caller has not yet taken the result of
NoCall == [op |-> "none", threw |-> FALSE, val |-> undefined]

\* the caller is between two calls
Ready == ret.op = "none" /\ rret.op = "none"

\* new BufferQueueReader(chunk1, ..., chunkN) and new BufferReader(data)
InitPair ==
    \E data \in Chunks :
        \E cuts \in SUBSET (1..(Len(data) - 1)) :
            /\ qr = BufferQueueReader_push(BufferQueueReader_new,
                                           BufferArgs(Split(data, cuts, 1))).r
            /\ br = BufferReader_new(data)
            /\ pushed = data
            /\ shifted = <<>>
            /\ bb = BufferBuilder_new
            /\ nextTick = 0
            /\ ret = NoCall
            /\ rret = NoCall

\* new BufferQueueReader() and new BufferReader(new Buffer(0))
InitEmpty ==
    /\ qr = BufferQueueReader_new
    /\ br = BufferReader_new(<<>>)
    /\ pushed = <<>>
    /\ shifted = <<>>
    /\ bb = BufferBuilder_new
    /\ nextTick = 0
    /\ ret = NoCall
    /\ rret = NoCall

\* the longer of the two readers
Length == IF qr.length > br.length THEN qr.length ELSE br.length

Call(op, a, b) ==
    /\ qr' = a.r
    /\ ret' = Called(op, a)
    /\ br' = b.r
    /\ rret' = Called(op, b)
    /\ UNCHANGED <<pushed, shifted, bb, nextTick>>

\* The caller takes the result (or catches the error) and goes on to its next
\* call.
Continue ==
    /\ ~Ready
    /\ ret' = NoCall
    /\ rret' = NoCall
    /\ UNCHANGED <<qr, br, pushed, shifted, bb, nextTick>>

Push ==
    /\ Ready
    /\ \E chunk \in Chunks :
        /\ Len(pushed) + Len(chunk) <= MaxLen
        /\ LET a == BufferQueueReader_push(qr, BufferArgs(<<chunk>>)) IN
           /\ qr' = a.r
           /\ ret' = Called("push", a)
        /\ pushed' = pushed \o chunk
        /\ UNCHANGED <<br, rret, shifted, bb, nextTick>>

Skip ==
    /\ Ready
    /\ \E hasCount \in BOOLEAN :
        \E count \in IF hasCount THEN CountArgs(Length) ELSE {undefined} :
            Call("skip", BufferQueueReader_skip(qr, hasCount, count),
                 BufferReader_skip(br, hasCount, count))

IndexOf ==
    /\ Ready
    /\ \E searchElement \in Bytes \cup {-1, 256, NaN}, hasFrom \in BOOLEAN :
        \E fromIndex \in IF hasFrom THEN CountArgs(Length) ELSE {undefined} :
            Call("indexOf",
                 BufferQueueReader_indexOf(qr, searchElement, hasFrom, fromIndex),
                 BufferReader_indexOf(br, searchElement, hasFrom, fromIndex))

ShiftByte ==
    /\ Ready
    /\ Call("shiftByte", BufferQueueReader_shiftByte(qr), BufferReader_shiftByte(br))

\* shiftByte with the returned byte recorded in the history
ShiftByteLogged ==
    LET a == BufferQueueReader_shiftByte(qr) IN
    /\ Ready
    /\ qr' = a.r
    /\ ret' = Called("shiftByte", a)
    /\ shifted' = IF a.threw THEN shifted ELSE Append(shifted, a.val)
    /\ UNCHANGED <<br, rret, pushed, bb, nextTick>>

ShiftBytes ==
    /\ Ready
    /\ \E count \in CountArgs(Length) :
        Call("shiftBytes", BufferQueueReader_shiftBytes(qr, count),
             BufferReader_shiftBytes(br, count))

ShiftBuffer ==
    /\ Ready
    /\ \E count \in CountArgs(Length) :
        Call("shiftBuffer", BufferQueueReader_shiftBuffer(qr, count),
             BufferReader_shiftBuffer(br, count))

ShiftBits ==
    /\ Ready
    /\ \E count \in BitCountArgs(Length) :
        Call("shiftBits", BufferQueueReader_shiftBits(qr, count),
             BufferReader_shiftBits(br, count))

ShiftString ==
    /\ Ready
    /\ \E length \in CountArgs(Length), encoding \in Encodings :
        Call("shiftString", BufferQueueReader_shiftString(qr, length, encoding),
             BufferReader_shiftString(br, length, encoding))

\* shiftZeroString(): encoding || 'utf8' is 'utf8'
ShiftZeroString ==
    /\ Ready
    /\ Call("shiftZeroString", BufferQueueReader_shiftZeroString(qr, "utf8"),
            BufferReader_shiftZeroString(br, "utf8"))

ShiftInt8 ==
    /\ Ready
    /\ Call("shiftInt8", BufferQueueReader_shiftInt8(qr), BufferReader_shiftInt8(br))

ShiftInt16 ==
    /\ Ready
    /\ \E littleEndian \in BOOLEAN :
        Call("shiftInt16", BufferQueueReader_shiftInt16(qr, littleEndian),
             BufferReader_shiftInt16(br, littleEndian))

ShiftInt32 ==
    /\ Ready
    /\ \E littleEndian \in BOOLEAN :
        Call("shiftInt32", BufferQueueReader_shiftInt32(qr, littleEndian),
             BufferReader_shiftInt32(br, littleEndian))

ShiftUInt8 ==
    /\ Ready
    /\ Call("shiftUInt8", BufferQueueReader_shiftUInt8(qr), BufferReader_shiftUInt8(br))

ShiftUInt16 ==
    /\ Ready
    /\ \E littleEndian \in BOOLEAN :
        Call("shiftUInt16", BufferQueueReader_shiftUInt16(qr, littleEndian),
             BufferReader_shiftUInt16(br, littleEndian))

ShiftUInt32 ==
    /\ Ready
    /\ \E littleEndian \in BOOLEAN :
        Call("shiftUInt32", BufferQueueReader_shiftUInt32(qr, littleEndian),
             BufferReader_shiftUInt32(br, littleEndian))

\* the calls that both readers have, on a pair built from the same bytes
Next ==
    \/ Skip
    \/ IndexOf
    \/ ShiftByte
    \/ ShiftBytes
    \/ ShiftBuffer
    \/ ShiftBits
    \/ ShiftString
    \/ ShiftZeroString
    \/ ShiftInt8
    \/ ShiftInt16
    \/ ShiftInt32
    \/ ShiftUInt8
    \/ ShiftUInt16
    \/ ShiftUInt32
    \/ Continue

Spec == InitPair /\ [][Next]_vars

\* skip and the byte and integer shifts alone
NextLockstep ==
    \/ Skip
    \/ ShiftByte
    \/ ShiftBytes
    \/ ShiftInt8
    \/ ShiftInt16
    \/ ShiftInt32
    \/ ShiftUInt8
    \/ ShiftUInt16
    \/ ShiftUInt32
    \/ Continue

SpecLockstep == InitPair /\ [][NextLockstep]_vars

\* an empty BufferQueueReader that chunks are pushed into between the calls
NextQueue == Push \/ Next

SpecQueue == InitEmpty /\ [][NextQueue]_vars

\* push and shiftByte alone
NextPushShift == Push \/ ShiftByteLogged \/ Continue

SpecPushShift == InitEmpty /\ [][NextPushShift]_vars

(***************************************************************************)
(* The unread bytes of a reader as one flat sequence.                      *)
(***************************************************************************)
RECURSIVE Flatten(_)
Flatten(buffers) ==
    IF buffers = <<>> THEN <<>> ELSE Head(buffers) \o Flatten(Tail(buffers))

Drop(bytes, n) == SubSeq(bytes, n + 1, Len(bytes))

QueueUnread(q) == Drop(Flatten(q.buffers), q.offset)

ReaderUnread(r) == Drop(r.buffer, r.offset)

(***************************************************************************)
(* C1.  Under push and shiftByte alone, the k-th successful shiftByte()    *)
(* returns the k-th byte of the concatenation of the pushed chunks, and    *)
(* shiftByte() fails only when every pushed byte has been returned.        *)
(***************************************************************************)
C1_ShiftByteYieldsPushedBytesInOrder ==
    /\ Len(shifted) <= Len(pushed)
    /\ \A k \in 1..Len(shifted) : shifted[k] = pushed[k]
    /\ (ret.op = "shiftByte" /\ ret.threw) => Len(shifted) = Len(pushed)

\* a shiftByte that read the last byte of a chunk while a later chunk waits,
\* after an earlier push into the drained reader
C1_Witness ==
    /\ ret.op = "shiftByte"
    /\ ~ret.threw
    /\ Len(shifted) >= 2
    /\ qr.offset = 0
    /\ Len(qr.buffers) >= 1
    /\ Len(pushed) = MaxLen

(***************************************************************************)
(* C2.  In every reachable state of the BufferQueueReader, after successful*)
(* and failed calls alike, length is the sum of the lengths of the stored  *)
(* buffers minus offset, and 0 when no buffer is stored.                   *)
(***************************************************************************)
C2_LengthIsStoredBytesMinusOffset ==
    /\ qr.length = Len(Flatten(qr.buffers)) - qr.offset
    /\ qr.buffers = <<>> => qr.length = 0

\* a call has failed on a reader that holds several chunks, the first of them
\* partly read
C2_Witness ==
    /\ ret.threw
    /\ qr.offset > 0
    /\ Len(qr.buffers) >= 2
    /\ qr.length < Len(pushed)

(***************************************************************************)
(* C3.  In every reachable state of the BufferQueueReader no stored buffer *)
(* is empty, offset lies inside the first buffer when there is one, and    *)
(* offset is 0 when there is none.                                         *)
(***************************************************************************)
C3_HeadHasUnreadByte ==
    /\ \A i \in 1..Len(qr.buffers) : Len(qr.buffers[i]) > 0
    /\ qr.buffers # <<>> => (0 <= qr.offset /\ qr.offset < Len(qr.buffers[1]))
    /\ qr.buffers = <<>> => qr.offset = 0

\* a shift has read the first buffer to its end and a later buffer is the head
C3_Witness ==
    /\ ret.op \in {"shiftBytes", "shiftUInt16", "skip"}
    /\ ~ret.threw
    /\ qr.offset = 0
    /\ Len(qr.buffers) >= 1
    /\ qr.length < Len(pushed)

(***************************************************************************)
(* The first index from fromIndex on at which bytes holds byteValue (0     *)
(* based), or -1.                                                          *)
(***************************************************************************)
FirstIndexOf(bytes, byteValue, fromIndex) ==
    LET hits == {i \in fromIndex..(Len(bytes) - 1) : bytes[i + 1] = byteValue} IN
    IF hits = {} THEN -1 ELSE CHOOSE i \in hits : \A j \in hits : i <= j

(***************************************************************************)
(* C7.  In every reachable state of the BufferQueueReader, indexOf(b, from)*)
(* with 0 <= from <= length returns the smallest relative index >= from of *)
(* an unread byte equal to b, counted across the buffers, and -1 when      *)
(* there is none; indexOf(b) is indexOf(b, 0).                             *)
(***************************************************************************)
C7_QueueIndexOfFindsFirstOccurrence ==
    Ready =>
        \A b \in Bytes :
            /\ \A from \in 0..qr.length :
                   BufferQueueReader_indexOf(qr, b, TRUE, from)
                       = Return(qr, FirstIndexOf(QueueUnread(qr), b, from))
            /\ BufferQueueReader_indexOf(qr, b, FALSE, undefined)
                   = Return(qr, FirstIndexOf(QueueUnread(qr), b, 0))

\* indexOf has found a byte in a later buffer of a reader whose first buffer
\* is partly read
C7_Witness ==
    /\ ret.op = "indexOf"
    /\ ~ret.threw
    /\ qr.offset > 0
    /\ Len(qr.buffers) >= 2
    /\ ret.val >= Len(qr.buffers[1]) - qr.offset

(***************************************************************************)
(* C4.  In every reachable state of the BufferReader,                      *)
(* 0 <= offset <= buffer.length and length = buffer.length - offset;       *)
(* no call decreases offset, and only skip and the shift calls change      *)
(* offset or length.                                                       *)
(***************************************************************************)
ReaderInBounds(r) ==
    /\ 0 <= r.offset
    /\ r.offset <= Len(r.buffer)
    /\ r.length = Len(r.buffer) - r.offset

ConsumingCalls ==
    {"skip", "shiftByte", "shiftBytes", "shiftBuffer", "shiftBits",
     "shiftString", "shiftZeroString", "shiftInt8", "shiftInt16", "shiftInt32",
     "shiftUInt8", "shiftUInt16", "shiftUInt32"}

ReaderStep ==
    /\ ReaderInBounds(br')
    /\ br'.offset >= br.offset
    /\ (br' # br) => (rret'.op \in ConsumingCalls)

C4_ReaderOffsetAndLength == ReaderInBounds(br) /\ [][ReaderStep]_vars

\* a skip past the end has left the reader of a full buffer empty
C4_Witness ==
    /\ rret.op = "skip"
    /\ ~rret.threw
    /\ Len(br.buffer) = MaxLen
    /\ br.offset = MaxLen
    /\ br.length = 0

(***************************************************************************)
(* C5.  A BufferQueueReader over the chunks of a byte sequence and a       *)
(* BufferReader over the whole sequence, given the same skip, shiftByte,   *)
(* shiftBytes, shiftInt8/16/32 and shiftUInt8/16/32 calls, return the same *)
(* value or both fail at every call, and have the same length after it.    *)
(***************************************************************************)
C5_QueueReaderMatchesReader ==
    /\ ret.op = rret.op
    /\ ret.threw = rret.threw
    /\ ~ret.threw => ret.val = rret.val
    /\ qr.length = br.length

\* a 16 bit shift has returned 255 (big endian 00 FF or little endian FF 00)
\* from the second and third byte of four, which were the last byte of one
\* chunk and the first byte of the next: the head is now half read
C5_Witness ==
    /\ ret.op = "shiftUInt16"
    /\ rret.op = "shiftUInt16"
    /\ ~ret.threw
    /\ ret.val = 255
    /\ br.offset = 3
    /\ qr.length = 1
    /\ qr.offset = 1
    /\ Len(qr.buffers[1]) = 2

(***************************************************************************)
(* C6.  In every reachable state of the BufferReader, indexOf(b, from)     *)
(* with 0 <= from <= length returns the smallest relative index >= from of *)
(* an unread byte equal to b, and -1 when there is none.                   *)
(***************************************************************************)
C6_ReaderIndexOfFindsFirstOccurrence ==
    Ready =>
        \A b \in Bytes :
            \A from \in 0..br.length :
                BufferReader_indexOf(br, b, TRUE, from)
                    = Return(br, FirstIndexOf(ReaderUnread(br), b, from))

\* indexOf has returned -1 on a partly read BufferReader whose unread bytes
\* hold both byte values
C6_Witness ==
    /\ rret.op = "indexOf"
    /\ ~rret.threw
    /\ rret.val = -1
    /\ br.offset > 0
    /\ \A b \in Bytes : FirstIndexOf(ReaderUnread(br), b, 0) >= 0

(***************************************************************************)
(* C8.  On both readers, when the first unread byte is zero,               *)
(* shiftZeroString() returns the empty string and consumes that one byte.  *)
(***************************************************************************)
StartsWithZero(bytes) == bytes # <<>> /\ bytes[1] = 0

ZeroByteShifted(unread, result, before, after, unreadAfter) ==
    StartsWithZero(unread) =>
        (/\ ~result.threw
         /\ result.val = <<>>
         /\ after = before - 1
         /\ unreadAfter = Tail(unread))

QueueReaderZeroByteStep ==
    (ret'.op = "shiftZeroString") =>
        ZeroByteShifted(QueueUnread(qr), ret', qr.length, qr'.length,
                        QueueUnread(qr'))

ReaderZeroByteStep ==
    (rret'.op = "shiftZeroString") =>
        ZeroByteShifted(ReaderUnread(br), rret', br.length, br'.length,
                        ReaderUnread(br'))

C8_ShiftZeroStringAtZeroByte ==
    [][QueueReaderZeroByteStep /\ ReaderZeroByteStep]_vars

\* shiftZeroString has thrown on both readers with a zero as first unread byte
C8_Witness ==
    /\ ret.op = "shiftZeroString"
    /\ rret.op = "shiftZeroString"
    /\ ret.threw
    /\ rret.threw
    /\ StartsWithZero(QueueUnread(qr))
    /\ StartsWithZero(ReaderUnread(br))

(***************************************************************************)
(* C9.  On both readers, in any reachable state, if the first zero byte    *)
(* among the unread bytes is at relative index k >= 1, shiftZeroString()   *)
(* returns the string of the k unread bytes before it and decreases length *)
(* by k + 1.                                                               *)
(***************************************************************************)
ZeroStringShifted(unread, result, before, after) ==
    LET k == FirstIndexOf(unread, 0, 0) IN
    (k >= 1) =>
        (/\ ~result.threw
         /\ result.val = toString(SubSeq(unread, 1, k))
         /\ after = before - (k + 1))

QueueReaderZeroStringStep ==
    (ret'.op = "shiftZeroString") =>
        ZeroStringShifted(QueueUnread(qr), ret', qr.length, qr'.length)

ReaderZeroStringStep ==
    (rret'.op = "shiftZeroString") =>
        ZeroStringShifted(ReaderUnread(br), rret', br.length, br'.length)

C9_ShiftZeroStringReturnsBytesBeforeZero ==
    [][QueueReaderZeroStringStep /\ ReaderZeroStringStep]_vars

\* the same shiftZeroString call has returned a non-empty string on the
\* BufferQueueReader and the empty string, consuming nothing, on the
\* BufferReader
C9_Witness ==
    /\ ret.op = "shiftZeroString"
    /\ rret.op = "shiftZeroString"
    /\ ~ret.threw
    /\ ~rret.threw
    /\ ret.val # <<>>
    /\ rret.val = <<>>
    /\ br.length > qr.length

(***************************************************************************)
(* C10.  On both readers, when no unread byte is zero, shiftZeroString()   *)
(* returns the empty string and leaves offset, length and the stored       *)
(* buffers as they were.                                                   *)
(***************************************************************************)
NoZero(bytes) == \A i \in 1..Len(bytes) : bytes[i] # 0

QueueReaderNoZeroStep ==
    (ret'.op = "shiftZeroString" /\ NoZero(QueueUnread(qr))) =>
        (~ret'.threw /\ ret'.val = <<>> /\ qr' = qr)

ReaderNoZeroStep ==
    (rret'.op = "shiftZeroString" /\ NoZero(ReaderUnread(br))) =>
        (~rret'.threw /\ rret'.val = <<>> /\ br' = br)

C10_ShiftZeroStringWithoutZeroByte ==
    [][QueueReaderNoZeroStep /\ ReaderNoZeroStep]_vars

\* shiftZeroString has returned on readers that hold unread bytes, none of
\* them zero, in two chunks of which the first is partly read
C10_Witness ==
    /\ ret.op = "shiftZeroString"
    /\ rret.op = "shiftZeroString"
    /\ qr.offset > 0
    /\ Len(qr.buffers) >= 2
    /\ NoZero(QueueUnread(qr))
    /\ br.offset > 0
    /\ br.length > 0
    /\ NoZero(ReaderUnread(br))

(***************************************************************************)
(* push with several arguments, some of them not a Buffer.                 *)
(***************************************************************************)
\* an argument that is not a Buffer, such as the array [1, 2, 3]
NotABuffer == [isBuffer |-> FALSE, bytes |-> <<>>]

PushArguments == {[isBuffer |-> TRUE, bytes |-> c] : c \in Chunks} \cup {NotABuffer}

\* reader.push(a) and reader.push(a, b); the history takes the bytes that the
\* call stored
PushArgs ==
    /\ Ready
    /\ \E args \in [1..1 -> PushArguments] \cup [1..2 -> PushArguments] :
        LET a == BufferQueueReader_push(qr, args) IN
        /\ Len(pushed) + (a.r.length - qr.length) <= MaxLen
        /\ qr' = a.r
        /\ ret' = Called("push", a)
        /\ pushed' = pushed \o Drop(Flatten(a.r.buffers), Len(Flatten(qr.buffers)))
        /\ UNCHANGED <<br, rret, shifted, bb, nextTick>>

NextPushArgs == PushArgs \/ ShiftByteLogged \/ Continue

SpecPushArgs == InitEmpty /\ [][NextPushArgs]_vars

(***************************************************************************)
(* C11.  A push(c1, ..., cn) that fails because an argument is not a       *)
(* Buffer leaves the stored buffers and length as they were before the     *)
(* call, also when Buffers precede that argument.                          *)
(***************************************************************************)
FailedPushStep ==
    (ret'.op = "push" /\ ret'.threw) =>
        (qr'.buffers = qr.buffers /\ qr'.length = qr.length)

C11_FailedPushStoresNothing == [][FailedPushStep]_vars

\* a push has failed on a reader that holds two buffers
C11_Witness ==
    /\ ret.op = "push"
    /\ ret.threw
    /\ Len(qr.buffers) = 2
    /\ qr.length = Len(pushed)

(***************************************************************************)
(* C12.  On both readers, skip(count) with count >= 0 decreases length by  *)
(* min(count, length) and makes the byte that was at relative index count  *)
(* the next unread byte; skip() and skip(count) with count >= length leave *)
(* length 0; on the BufferQueueReader the buffers that the skip passes     *)
(* completely are removed from the queue.                                  *)
(***************************************************************************)
\* the buffers of after are the last buffers of before, and the first of them
\* holds an unread byte
EvictedTo(before, after) ==
    /\ \E n \in 0..Len(before.buffers) : after.buffers = Drop(before.buffers, n)
    /\ after.buffers # <<>> => after.offset < Len(after.buffers[1])
    /\ after.buffers = <<>> => after.offset = 0

QueueReaderSkips(q, hasCount, count) ==
    LET s == BufferQueueReader_skip(q, hasCount, count)
        n == IF hasCount THEN Min(count, q.length) ELSE q.length
    IN
    /\ ~s.threw
    /\ s.r.length = q.length - n
    /\ QueueUnread(s.r) = Drop(QueueUnread(q), n)
    /\ EvictedTo(q, s.r)

ReaderSkips(r, hasCount, count) ==
    LET s == BufferReader_skip(r, hasCount, count)
        n == IF hasCount THEN Min(count, r.length) ELSE r.length
    IN
    /\ ~s.threw
    /\ s.r.length = r.length - n
    /\ ReaderUnread(s.r) = Drop(ReaderUnread(r), n)

C12_SkipConsumesCountBytes ==
    Ready =>
        /\ QueueReaderSkips(qr, FALSE, undefined)
        /\ ReaderSkips(br, FALSE, undefined)
        /\ \A count \in 0..(MaxLen + 1) :
            /\ QueueReaderSkips(qr, TRUE, count)
            /\ ReaderSkips(br, TRUE, count)

\* a skip has passed at least one whole buffer and stopped inside a later one,
\* with unread bytes left on both readers
C12_Witness ==
    /\ ret.op = "skip"
    /\ rret.op = "skip"
    /\ ~ret.threw
    /\ Len(qr.buffers) = 1
    /\ Len(qr.buffers[1]) = 2
    /\ qr.offset = 1
    /\ br.offset = MaxLen - 1
    /\ br.length = 1

(***************************************************************************)
(* C13.  On both readers, a failed skip, shiftByte, shiftBytes,            *)
(* shiftBuffer, shiftBits, shiftInt16, shiftUInt16, shiftInt32 or          *)
(* shiftUInt32 leaves offset, length and the stored buffers as they were   *)
(* before the call.                                                        *)
(***************************************************************************)
ValidatingCalls ==
    {"skip", "shiftByte", "shiftBytes", "shiftBuffer", "shiftBits",
     "shiftInt16", "shiftUInt16", "shiftInt32", "shiftUInt32"}

FailedCallStep ==
    /\ (ret'.op \in ValidatingCalls /\ ret'.threw) => qr' = qr
    /\ (rret'.op \in ValidatingCalls /\ rret'.threw) => br' = br

C13_FailedCallConsumesNothing == [][FailedCallStep]_vars

\* shiftUInt32 has failed on both readers with three unread bytes, the first
\* buffer of the queue partly read
C13_Witness ==
    /\ ret.op = "shiftUInt32"
    /\ rret.op = "shiftUInt32"
    /\ ret.threw
    /\ rret.threw
    /\ qr.length = 3
    /\ br.length = 3
    /\ qr.offset > 0
    /\ br.offset > 0

(***************************************************************************)
(* C14.  On both readers, shiftString(n, encoding) and                     *)
(* shiftZeroString(encoding) with an unsupported encoding fail and leave   *)
(* offset, length and the stored buffers as they were before the call.     *)
(***************************************************************************)
FailsUnchanged(result, reader) == result.threw /\ result.r = reader

C14_UnsupportedEncodingConsumesNothing ==
    Ready =>
        /\ \A n \in CountArgs(Length) :
            /\ FailsUnchanged(BufferQueueReader_shiftString(qr, n, "utf-666"), qr)
            /\ FailsUnchanged(BufferReader_shiftString(br, n, "utf-666"), br)
        /\ FailsUnchanged(BufferQueueReader_shiftZeroString(qr, "utf-666"), qr)
        /\ FailsUnchanged(BufferReader_shiftZeroString(br, "utf-666"), br)

\* a shiftString(2, 'utf-666') that throws after it has taken two bytes from
\* each reader, whose first buffer is partly read
C14_Witness ==
    /\ Ready
    /\ qr.offset > 0
    /\ br.offset > 0
    /\ BufferQueueReader_shiftString(qr, 2, "utf-666").threw
    /\ BufferQueueReader_shiftString(qr, 2, "utf-666").r.length = qr.length - 2
    /\ BufferReader_shiftString(br, 2, "utf-666").threw
    /\ BufferReader_shiftString(br, 2, "utf-666").r.length = br.length - 2

(***************************************************************************)
(* node's Buffer.prototype.copy(target, targetStart, sourceStart,          *)
(* sourceEnd), for 0 <= sourceStart <= sourceEnd <= source.length and      *)
(* 0 <= targetStart.  It writes as many bytes as the target has room for.  *)
(* With a target start at the end of a non-empty target, node up to 0.10   *)
(* throws a RangeError and later versions return 0: legacy tells which.    *)
(***************************************************************************)
Copied(target, written, threw) ==
    [target |-> target, written |-> written, threw |-> threw]

Buffer_copy(source, target, targetStart, sourceStart, sourceEnd, legacy) ==
    IF sourceEnd = sourceStart \/ Len(target) = 0 \/ Len(source) = 0
    THEN Copied(target, 0, FALSE)
    ELSE IF targetStart >= Len(target) THEN Copied(target, 0, legacy)
    ELSE LET n == Min(sourceEnd - sourceStart, Len(target) - targetStart) IN
         Copied([i \in 1..Len(target) |->
                     IF i > targetStart /\ i <= targetStart + n
                     THEN source[sourceStart + (i - targetStart)]
                     ELSE target[i]],
                n, FALSE)

(***************************************************************************)
(* copy.  The result of a call that returns is [written, target, hangs]:   *)
(* the returned number, the target buffer after the call, and whether the  *)
(* call never returns (its loop repeats one state for ever).  args are     *)
(* the arguments given after targetBuffer.                                 *)
(***************************************************************************)
CopyReturn(r, target, written) ==
    Return(r, [written |-> written, target |-> target, hangs |-> FALSE])

CopyHangs(r, target, written) ==
    Return(r, [written |-> written, target |-> target, hangs |-> TRUE])

\* arguments.length >= i + 1 ? parseInt(args[i], 10) : default
ArgOr(args, i, default) == IF Len(args) >= i THEN parseInt(args[i]) ELSE default

\* while ((buffer = this.buffers[index++]).length <= offset): index is the
\* index of buffer
RECURSIVE BufferQueueReader_seek(_, _, _)
BufferQueueReader_seek(q, offset, index) ==
    IF index < Len(q.buffers) /\ Len(q.buffers[index + 1]) <= offset
    THEN BufferQueueReader_seek(q, offset - Len(q.buffers[index + 1]), index + 1)
    ELSE [offset |-> offset, index |-> index]

\* while (count): one buffer.copy for each turn
\* the loop of copy with every buffer.copy written at the first target start
RECURSIVE BufferQueueReader_copyLoop_sameStart(_, _, _, _, _, _, _, _)
BufferQueueReader_copyLoop_sameStart(q, target, targetStart, offset, index, count, totalWritten, legacy) ==
    IF count = 0 THEN CopyReturn(q, target, totalWritten)
    ELSE IF index >= Len(q.buffers) THEN Throw(q)
    ELSE LET buffer == q.buffers[index + 1]
             c == Buffer_copy(buffer, target, targetStart, offset,
                              Min(Len(buffer), offset + count), legacy)
             next == offset + c.written >= Len(buffer)
         IN
         IF c.threw THEN Throw(q)
         ELSE IF c.written = 0 /\ ~next THEN CopyHangs(q, c.target, totalWritten)
         ELSE BufferQueueReader_copyLoop_sameStart(
                  q, c.target, targetStart,
                  IF next THEN 0 ELSE offset + c.written,
                  IF next THEN index + 1 ELSE index,
                  count - c.written, totalWritten + c.written, legacy)

RECURSIVE BufferQueueReader_copyLoop(_, _, _, _, _, _, _, _)
BufferQueueReader_copyLoop(q, target, targetStart, offset, index, count, totalWritten, legacy) ==
    IF count = 0 THEN CopyReturn(q, target, totalWritten)
    ELSE IF index >= Len(q.buffers) THEN Throw(q)
    ELSE LET buffer == q.buffers[index + 1]
             c == Buffer_copy(buffer, target, targetStart, offset,
                              Min(Len(buffer), offset + count), legacy)
             next == offset + c.written >= Len(buffer)
         IN
         IF c.threw THEN Throw(q)
         ELSE IF c.written = 0 /\ ~next THEN CopyHangs(q, c.target, totalWritten)
         ELSE BufferQueueReader_copyLoop(
                  q, c.target, targetStart + c.written,
                  IF next THEN 0 ELSE offset + c.written,
                  IF next THEN index + 1 ELSE index,
                  count - c.written, totalWritten + c.written, legacy)

BufferQueueReader_copy(q, targetBuffer, args, legacy) ==
    LET targetStart == ArgOr(args, 1, 0)
        sourceStart == ArgOr(args, 2, 0)
        sourceEnd == ArgOr(args, 3, q.length)
        target == targetBuffer.bytes
    IN
    IF ~targetBuffer.isBuffer THEN Throw(q)
    ELSE IF isNaN(targetStart) \/ targetStart < 0 \/ targetStart > Len(target)
    THEN Throw(q)
    ELSE IF isNaN(sourceStart) \/ sourceStart < 0 \/ sourceStart >= q.length
    THEN Throw(q)
    ELSE IF isNaN(sourceEnd) \/ sourceEnd < 1 \/ sourceEnd > q.length
    THEN Throw(q)
    ELSE IF sourceStart >= sourceEnd THEN Throw(q)
    ELSE LET at == BufferQueueReader_seek(q, q.offset + sourceStart, 0)
             count == sourceEnd - sourceStart
         IN
         IF at.index >= Len(q.buffers) THEN Throw(q)
         ELSE LET buffer == q.buffers[at.index + 1] IN
              IF Len(buffer) >= at.offset + count
              THEN LET c == Buffer_copy(buffer, target, targetStart, at.offset,
                                        at.offset + count, legacy) IN
                   IF c.threw THEN Throw(q)
                   ELSE CopyReturn(q, c.target, c.written)
              ELSE BufferQueueReader_copyLoop(q, target, targetStart, at.offset,
                                              at.index, count, 0, legacy)

BufferReader_copy(r, targetBuffer, args, legacy) ==
    LET targetStart == ArgOr(args, 1, 0)
        sourceStart == ArgOr(args, 2, 0)
        sourceEnd == ArgOr(args, 3, r.length)
        target == targetBuffer.bytes
    IN
    IF ~targetBuffer.isBuffer THEN Throw(r)
    ELSE IF isNaN(targetStart) \/ targetStart < 0 \/ targetStart > Len(target)
    THEN Throw(r)
    ELSE IF isNaN(sourceStart) \/ sourceStart < 0 \/ sourceStart >= r.length
    THEN Throw(r)
    ELSE IF isNaN(sourceEnd) \/ sourceEnd < 1 \/ sourceEnd > r.length
    THEN Throw(r)
    ELSE IF sourceStart >= sourceEnd THEN Throw(r)
    ELSE LET c == Buffer_copy(r.buffer, target, targetStart,
                              r.offset + sourceStart, r.offset + sourceEnd,
                              legacy) IN
         IF c.threw THEN Throw(r) ELSE CopyReturn(r, c.target, c.written)

(***************************************************************************)
(* BufferQueueReader: the absolute reads.                                  *)
(***************************************************************************)
\* readByte that moves the reader on by the byte it returns
BufferQueueReader_readByte_consuming(q, offsetArg) ==
    LET offset == parseInt(offsetArg) IN
    IF isNaN(offset) \/ offset < 0 \/ offset >= q.length THEN Throw(q)
    ELSE LET at == BufferQueueReader_seek(q, offset + q.offset, 0) IN
         IF at.index >= Len(q.buffers) THEN Throw(q)
         ELSE Return(BufferQueueReader_skip(q, TRUE, 1).r,
                     At(q.buffers[at.index + 1], at.offset))

BufferQueueReader_readByte(q, offsetArg) ==
    LET offset == parseInt(offsetArg) IN
    IF isNaN(offset) \/ offset < 0 \/ offset >= q.length THEN Throw(q)
    ELSE LET at == BufferQueueReader_seek(q, offset + q.offset, 0) IN
         IF at.index >= Len(q.buffers) THEN Throw(q)
         ELSE Return(q, At(q.buffers[at.index + 1], at.offset))

\* String.fromCharCode(this.readByte(offset)): a string of one character
BufferQueueReader_readChar(q, offset) ==
    LET b == BufferQueueReader_readByte(q, offset) IN
    IF b.threw THEN b ELSE Return(q, <<b.val>>)

\* while (count--) of readBytes; past the last buffer the property access
\* on undefined throws
RECURSIVE BufferQueueReader_readBytesLoop(_, _, _, _, _)
BufferQueueReader_readBytesLoop(q, offset, index, count, byteArray) ==
    IF count = 0 THEN Return(q, byteArray)
    ELSE IF index >= Len(q.buffers) THEN Throw(q)
    ELSE LET buffer == q.buffers[index + 1]
             next == offset + 1 >= Len(buffer)
         IN
         BufferQueueReader_readBytesLoop(
             q, IF next THEN 0 ELSE offset + 1, IF next THEN index + 1 ELSE index,
             count - 1, Append(byteArray, At(buffer, offset)))

BufferQueueReader_readBytes(q, offsetArg, countArg) ==
    LET offset == parseInt(offsetArg)
        count == parseInt(countArg)
    IN
    IF isNaN(offset) \/ offset < 0 THEN Throw(q)
    ELSE IF isNaN(count) \/ count < 1 THEN Throw(q)
    ELSE IF offset + count > q.length THEN Throw(q)
    ELSE LET at == BufferQueueReader_seek(q, offset + q.offset, 0) IN
         BufferQueueReader_readBytesLoop(q, at.offset, at.index, count, <<>>)

\* buffer.slice when one buffer holds the range, and else the copy loop into
\* new Buffer(count), whose bytes are not initialised
BufferQueueReader_readBuffer(q, offsetArg, countArg) ==
    LET offset == parseInt(offsetArg)
        count == parseInt(countArg)
    IN
    IF isNaN(offset) \/ offset < 0 THEN Throw(q)
    ELSE IF isNaN(count) \/ count < 1 THEN Throw(q)
    ELSE IF offset + count > q.length THEN Throw(q)
    ELSE LET at == BufferQueueReader_seek(q, offset + q.offset, 0) IN
         IF at.index >= Len(q.buffers) THEN Throw(q)
         ELSE LET buffer == q.buffers[at.index + 1] IN
              IF Len(buffer) >= at.offset + count
              THEN Return(q, SubSeq(buffer, at.offset + 1, at.offset + count))
              ELSE LET c == BufferQueueReader_copyLoop(
                                q, [i \in 1..count |-> Filler], 0, at.offset,
                                at.index, count, 0, FALSE) IN
                   IF c.threw THEN c ELSE Return(q, c.val.target)

BufferQueueReader_readString(q, offset, length, encoding) ==
    LET b == BufferQueueReader_readBuffer(q, offset, length) IN
    IF b.threw THEN b
    ELSE IF ~isEncoding(encoding) THEN Throw(q)
    ELSE Return(q, toString(b.val))

BufferQueueReader_readZeroString(q, offset, encoding) ==
    LET z == BufferQueueReader_indexOf(q, 0, TRUE, offset) IN
    IF z.threw THEN z
    ELSE IF z.val = -1 \/ z.val - offset = 0 THEN Return(q, <<>>)
    ELSE BufferQueueReader_readString(q, offset, z.val - offset, encoding)

BufferQueueReader_readBits(q, offset, count) ==
    LET b == BufferQueueReader_readBytes(q, offset, CeilDiv8(count)) IN
    IF b.threw THEN b ELSE Return(q, toBits(b.val, count))

\* the loop of readUInt
RECURSIVE readUIntLoop(_, _, _, _, _, _, _)
readUIntLoop(reader, offset, index, size, littleEndian, value, shift) ==
    IF size = 0 THEN Return(reader, value)
    ELSE IF index >= Len(reader.buffers) THEN Throw(reader)
    ELSE LET buffer == reader.buffers[index + 1]
             next == offset + 1 >= Len(buffer)
         IN
         readUIntLoop(
             reader, IF next THEN 0 ELSE offset + 1,
             IF next THEN index + 1 ELSE index, size - 1, littleEndian,
             IF littleEndian
             THEN AddU32(value, ShlByte(At(buffer, offset), shift + 8))
             ELSE AddU32(Shl8(value), ShlByte(At(buffer, offset), 0)),
             shift + 8)

\* readUInt that counts its offset from the start of the first buffer
readUInt_fromBufferStart(reader, offsetArg, size, littleEndian) ==
    LET offset == parseInt(offsetArg) IN
    IF isNaN(offset) \/ offset < 0 \/ offset + size > reader.length
    THEN Throw(reader)
    ELSE LET at == BufferQueueReader_seek(reader, offset, 0) IN
         readUIntLoop(reader, at.offset, at.index, size, littleEndian,
                      U32(0, 0), -8)

readUInt(reader, offsetArg, size, littleEndian) ==
    LET offset == parseInt(offsetArg) IN
    IF isNaN(offset) \/ offset < 0 \/ offset + size > reader.length
    THEN Throw(reader)
    ELSE LET at == BufferQueueReader_seek(reader, offset + reader.offset, 0) IN
         readUIntLoop(reader, at.offset, at.index, size, littleEndian,
                      U32(0, 0), -8)

BufferQueueReader_readInt8(q, offset) ==
    LET b == BufferQueueReader_readByte(q, offset) IN
    IF b.threw THEN b ELSE Return(q, toInt8(b.val))

BufferQueueReader_readInt16(q, offset, littleEndian) ==
    LET u == readUInt(q, offset, 2, littleEndian) IN
    IF u.threw THEN u ELSE Return(q, toInt16(Num(u.val)))

BufferQueueReader_readInt32(q, offset, littleEndian) ==
    LET u == readUInt(q, offset, 4, littleEndian) IN
    IF u.threw THEN u ELSE Return(q, toInt32(u.val))

BufferQueueReader_readUInt8(q, offset) == BufferQueueReader_readByte(q, offset)

BufferQueueReader_readUInt16(q, offset, littleEndian) ==
    LET u == readUInt(q, offset, 2, littleEndian) IN
    IF u.threw THEN u ELSE Return(q, Num(u.val))

BufferQueueReader_readUInt32(q, offset, littleEndian) ==
    readUInt(q, offset, 4, littleEndian)

(***************************************************************************)
(* BufferReader: the absolute reads.                                       *)
(***************************************************************************)
BufferReader_readByte(r, offsetArg) ==
    LET offset == parseInt(offsetArg) IN
    IF isNaN(offset) \/ offset < 0 \/ offset >= r.length THEN Throw(r)
    ELSE Return(r, At(r.buffer, r.offset + offset))

BufferReader_readChar(r, offset) ==
    LET b == BufferReader_readByte(r, offset) IN
    IF b.threw THEN b ELSE Return(r, <<b.val>>)

BufferReader_readBytes(r, offsetArg, countArg) ==
    LET offset == parseInt(offsetArg)
        count == parseInt(countArg)
    IN
    IF isNaN(offset) \/ offset < 0 THEN Throw(r)
    ELSE IF isNaN(count) \/ count < 1 THEN Throw(r)
    ELSE IF offset + count > r.length THEN Throw(r)
    ELSE Return(r, [i \in 1..count |-> At(r.buffer, r.offset + offset + i - 1)])

\* new Buffer(this.readBytes(offset, count))
BufferReader_readBuffer(r, offset, count) == BufferReader_readBytes(r, offset, count)

BufferReader_readString(r, offset, length, encoding) ==
    LET b == BufferReader_readBuffer(r, offset, length) IN
    IF b.threw THEN b
    ELSE IF ~isEncoding(encoding) THEN Throw(r)
    ELSE Return(r, toString(b.val))

BufferReader_readZeroString(r, offset, encoding) ==
    LET z == BufferReader_indexOf(r, 0, TRUE, offset) IN
    IF z.threw THEN z
    ELSE IF z.val = -1 \/ z.val - offset = 0 THEN Return(r, <<>>)
    ELSE BufferReader_readString(r, offset, z.val - offset, encoding)

BufferReader_readBits(r, offset, count) ==
    LET b == BufferReader_readBytes(r, offset, CeilDiv8(count)) IN
    IF b.threw THEN b ELSE Return(r, toBits(b.val, count))

BufferReader_readInt8(r, offset) == BufferReader_readInt(r, offset, 1, FALSE)

BufferReader_readInt16(r, offset, littleEndian) ==
    BufferReader_readInt(r, offset, 2, littleEndian)

BufferReader_readInt32(r, offset, littleEndian) ==
    BufferReader_readInt(r, offset, 4, littleEndian)

BufferReader_readUInt8(r, offset) ==
    LET u == BufferReader_readUInt(r, offset, 1, FALSE) IN
    IF u.threw THEN u ELSE Return(r, Num(u.val))

BufferReader_readUInt16(r, offset, littleEndian) ==
    LET u == BufferReader_readUInt(r, offset, 2, littleEndian) IN
    IF u.threw THEN u ELSE Return(r, Num(u.val))

BufferReader_readUInt32(r, offset, littleEndian) ==
    BufferReader_readUInt(r, offset, 4, littleEndian)

(***************************************************************************)
(* Calls that read without consuming, on the pair of readers.              *)
(***************************************************************************)
TargetBuffers ==
    {[isBuffer |-> TRUE, bytes |-> [i \in 1..n |-> Filler]] : n \in 0..MaxLen}
        \cup {NotABuffer}

\* the arguments after targetBuffer: none, targetStart, targetStart and
\* sourceStart, or all three
CopyArgs(length, targetLength) ==
    LET targetStarts == {0, 1, targetLength, targetLength + 1, NaN}
        sourceStarts == {0, 1, length, NaN}
        sourceEnds == {0, 1, length, length + 1, NaN}
    IN
    {<<>>}
        \cup {<<ts>> : ts \in targetStarts}
        \cup {<<ts, ss>> : ts \in {0, 1}, ss \in sourceStarts}
        \cup {<<ts, ss, se>> : ts \in {0, 1}, ss \in {0, 1}, se \in sourceEnds}

Copy ==
    /\ Ready
    /\ \E targetBuffer \in TargetBuffers, legacy \in BOOLEAN :
        \E args \in CopyArgs(Length, Len(targetBuffer.bytes)) :
            Call("copy", BufferQueueReader_copy(qr, targetBuffer, args, legacy),
                 BufferReader_copy(br, targetBuffer, args, legacy))

\* offsets of a read: negative, in range, at and past the end, not a number
OffsetArgs(length) == (-1..(length + 1)) \cup {NaN}

ReadByte ==
    /\ Ready
    /\ \E offset \in OffsetArgs(Length) :
        Call("readByte", BufferQueueReader_readByte(qr, offset),
             BufferReader_readByte(br, offset))

ReadChar ==
    /\ Ready
    /\ \E offset \in OffsetArgs(Length) :
        Call("readChar", BufferQueueReader_readChar(qr, offset),
             BufferReader_readChar(br, offset))

ReadBytes ==
    /\ Ready
    /\ \E offset \in OffsetArgs(Length), count \in CountArgs(Length) :
        Call("readBytes", BufferQueueReader_readBytes(qr, offset, count),
             BufferReader_readBytes(br, offset, count))

ReadBuffer ==
    /\ Ready
    /\ \E offset \in OffsetArgs(Length), count \in CountArgs(Length) :
        Call("readBuffer", BufferQueueReader_readBuffer(qr, offset, count),
             BufferReader_readBuffer(br, offset, count))

ReadBits ==
    /\ Ready
    /\ \E offset \in OffsetArgs(Length), count \in BitCountArgs(Length) :
        Call("readBits", BufferQueueReader_readBits(qr, offset, count),
             BufferReader_readBits(br, offset, count))

ReadZeroString ==
    /\ Ready
    /\ \E offset \in OffsetArgs(Length), encoding \in Encodings :
        Call("readZeroString",
             BufferQueueReader_readZeroString(qr, offset, encoding),
             BufferReader_readZeroString(br, offset, encoding))

ReadInt8 ==
    /\ Ready
    /\ \E offset \in OffsetArgs(Length) :
        Call("readInt8", BufferQueueReader_readInt8(qr, offset),
             BufferReader_readInt8(br, offset))

ReadInt16 ==
    /\ Ready
    /\ \E offset \in OffsetArgs(Length), littleEndian \in BOOLEAN :
        Call("readInt16", BufferQueueReader_readInt16(qr, offset, littleEndian),
             BufferReader_readInt16(br, offset, littleEndian))

ReadInt32 ==
    /\ Ready
    /\ \E offset \in OffsetArgs(Length), littleEndian \in BOOLEAN :
        Call("readInt32", BufferQueueReader_readInt32(qr, offset, littleEndian),
             BufferReader_readInt32(br, offset, littleEndian))

ReadUInt8 ==
    /\ Ready
    /\ \E offset \in OffsetArgs(Length) :
        Call("readUInt8", BufferQueueReader_readUInt8(qr, offset),
             BufferReader_readUInt8(br, offset))

ReadUInt16 ==
    /\ Ready
    /\ \E offset \in OffsetArgs(Length), littleEndian \in BOOLEAN :
        Call("readUInt16", BufferQueueReader_readUInt16(qr, offset, littleEndian),
             BufferReader_readUInt16(br, offset, littleEndian))

ReadUInt32 ==
    /\ Ready
    /\ \E offset \in OffsetArgs(Length), littleEndian \in BOOLEAN :
        Call("readUInt32", BufferQueueReader_readUInt32(qr, offset, littleEndian),
             BufferReader_readUInt32(br, offset, littleEndian))

\* the reads, between skip and shiftBytes calls that consume
NextRead ==
    \/ Skip
    \/ ShiftBytes
    \/ IndexOf
    \/ Copy
    \/ ReadByte
    \/ ReadChar
    \/ ReadBytes
    \/ ReadBuffer
    \/ ReadBits
    \/ ReadZeroString
    \/ ReadInt8
    \/ ReadInt16
    \/ ReadInt32
    \/ ReadUInt8
    \/ ReadUInt16
    \/ ReadUInt32
    \/ Continue

SpecRead == InitPair /\ [][NextRead]_vars

\* a target buffer of n bytes
Target(n) == [isBuffer |-> TRUE, bytes |-> [i \in 1..n |-> Filler]]

\* target is n filler bytes but for the bytes, written from targetStart on
TargetHolds(target, n, targetStart, bytes) ==
    target = [i \in 1..n |->
                 IF i > targetStart /\ i <= targetStart + Len(bytes)
                 THEN bytes[i - targetStart]
                 ELSE Filler]

(***************************************************************************)
(* C15.  BufferQueueReader copy(target, targetStart, sourceStart,          *)
(* sourceEnd) with valid indexes returns; when target has fewer than       *)
(* sourceEnd - sourceStart bytes from targetStart on (none included), it   *)
(* writes the bytes that fit and returns their number, also when the       *)
(* source range lies in two or more buffers.                               *)
(***************************************************************************)
CopyTruncates(q, n, targetStart, sourceStart, sourceEnd, legacy) ==
    LET c == BufferQueueReader_copy(q, Target(n),
                                    <<targetStart, sourceStart, sourceEnd>>,
                                    legacy)
        free == n - targetStart
    IN
    /\ ~c.threw
    /\ ~c.val.hangs
    /\ c.val.written = free
    /\ TargetHolds(c.val.target, n, targetStart,
                   SubSeq(QueueUnread(q), sourceStart + 1, sourceStart + free))

C15_CopyIntoSmallTargetReturns ==
    Ready =>
        \A n \in 0..MaxLen, legacy \in BOOLEAN :
            \A targetStart \in 0..n :
                \A sourceStart \in 0..(qr.length - 1) :
                    \A sourceEnd \in (sourceStart + 1)..qr.length :
                        (n - targetStart < sourceEnd - sourceStart)
                            => CopyTruncates(qr, n, targetStart, sourceStart,
                                             sourceEnd, legacy)

\* a copy has written one byte of several into a target of one byte, from a
\* reader of two or more buffers, and does not return
C15_Witness ==
    /\ ret.op = "copy"
    /\ ~ret.threw
    /\ ret.val.hangs
    /\ ret.val.written = 1
    /\ Len(ret.val.target) = 1
    /\ Len(qr.buffers) >= 2

(***************************************************************************)
(* C16.  BufferQueueReader copy(target, targetStart, sourceStart,          *)
(* sourceEnd) with 0 <= sourceStart < sourceEnd <= length and room in      *)
(* target writes the unread bytes at the relative indexes sourceStart to   *)
(* sourceEnd - 1 to target from targetStart on, returns                    *)
(* sourceEnd - sourceStart and leaves every other byte of target as it     *)
(* was, for every layout of the buffers and every offset.                  *)
(***************************************************************************)
\* target starts and spare bytes behind the copied range
TargetStarts == 0..1

Spare == 0..1

CopyCopies(q, targetStart, sourceStart, sourceEnd, spare, legacy) ==
    LET n == targetStart + (sourceEnd - sourceStart) + spare
        c == BufferQueueReader_copy(q, Target(n),
                                    <<targetStart, sourceStart, sourceEnd>>,
                                    legacy)
    IN
    /\ ~c.threw
    /\ ~c.val.hangs
    /\ c.val.written = sourceEnd - sourceStart
    /\ c.r = q
    /\ TargetHolds(c.val.target, n, targetStart,
                   SubSeq(QueueUnread(q), sourceStart + 1, sourceEnd))

C16_CopyWritesTheSourceRange ==
    Ready =>
        \A targetStart \in TargetStarts, spare \in Spare, legacy \in BOOLEAN :
            \A sourceStart \in 0..(qr.length - 1) :
                \A sourceEnd \in (sourceStart + 1)..qr.length :
                    CopyCopies(qr, targetStart, sourceStart, sourceEnd, spare,
                               legacy)

\* a copy has returned three bytes that lie in more than one buffer, the first
\* buffer partly read
C16_Witness ==
    /\ ret.op = "copy"
    /\ ~ret.threw
    /\ ~ret.val.hangs
    /\ ret.val.written = 3
    /\ qr.offset > 0
    /\ Len(qr.buffers) >= 2
    /\ TargetHolds(ret.val.target, Len(ret.val.target), 1, QueueUnread(qr))

(***************************************************************************)
(* C17.  On both readers, indexOf, copy, readByte, readChar, readBytes,    *)
(* readBuffer, readBits, readZeroString, readInt8/16/32 and                *)
(* readUInt8/16/32, whether they return or throw, leave offset, length,    *)
(* the sequence of stored buffers and their bytes as they were.            *)
(***************************************************************************)
ReadingCalls ==
    {"indexOf", "copy", "readByte", "readChar", "readBytes", "readBuffer",
     "readBits", "readZeroString", "readInt8", "readInt16", "readInt32",
     "readUInt8", "readUInt16", "readUInt32"}

ReadingStep ==
    /\ (ret'.op \in ReadingCalls) => qr' = qr
    /\ (rret'.op \in ReadingCalls) => br' = br

C17_ReadsLeaveTheReaderUnchanged == [][ReadingStep]_vars

\* readInt8 has returned -1 (the byte 0xFF) on both readers, the first buffer
\* of the queue partly read and another buffer behind it
C17_Witness ==
    /\ ret.op = "readInt8"
    /\ rret.op = "readInt8"
    /\ ~ret.threw
    /\ ~rret.threw
    /\ ret.val = -1
    /\ qr.offset > 0
    /\ Len(qr.buffers) >= 2
    /\ br.offset > 0
    /\ br.length = qr.length

(***************************************************************************)
(* C18.  On both readers and in every reachable state, readByte,           *)
(* readBytes, readInt8/16/32 and readUInt8/16/32 at a relative offset with *)
(* offset < 0 or offset + width > length fail.                             *)
(***************************************************************************)
\* offsets from before the first byte of the buffer to past the unread bytes
AnyOffset == (0 - MaxLen - 1)..(MaxLen + 1)

OutOfRange(offset, width, length) == offset < 0 \/ offset + width > length

QueueReaderRejects(q, offset) ==
    /\ OutOfRange(offset, 1, q.length) =>
        /\ BufferQueueReader_readByte(q, offset).threw
        /\ BufferQueueReader_readInt8(q, offset).threw
        /\ BufferQueueReader_readUInt8(q, offset).threw
    /\ \A count \in 1..(MaxLen + 1) :
        OutOfRange(offset, count, q.length) =>
            BufferQueueReader_readBytes(q, offset, count).threw
    /\ \A littleEndian \in BOOLEAN :
        /\ OutOfRange(offset, 2, q.length) =>
            /\ BufferQueueReader_readInt16(q, offset, littleEndian).threw
            /\ BufferQueueReader_readUInt16(q, offset, littleEndian).threw
        /\ OutOfRange(offset, 4, q.length) =>
            /\ BufferQueueReader_readInt32(q, offset, littleEndian).threw
            /\ BufferQueueReader_readUInt32(q, offset, littleEndian).threw

ReaderRejectsBytes(r, offset) ==
    /\ OutOfRange(offset, 1, r.length) => BufferReader_readByte(r, offset).threw
    /\ \A count \in 1..(MaxLen + 1) :
        OutOfRange(offset, count, r.length) =>
            BufferReader_readBytes(r, offset, count).threw

ReaderRejectsNumbers(r, offset) ==
    /\ OutOfRange(offset, 1, r.length) =>
        /\ BufferReader_readInt8(r, offset).threw
        /\ BufferReader_readUInt8(r, offset).threw
    /\ \A littleEndian \in BOOLEAN :
        /\ OutOfRange(offset, 2, r.length) =>
            /\ BufferReader_readInt16(r, offset, littleEndian).threw
            /\ BufferReader_readUInt16(r, offset, littleEndian).threw
        /\ OutOfRange(offset, 4, r.length) =>
            /\ BufferReader_readInt32(r, offset, littleEndian).threw
            /\ BufferReader_readUInt32(r, offset, littleEndian).threw

C18_ReadsOutOfRangeFail ==
    Ready =>
        \A offset \in AnyOffset :
            /\ QueueReaderRejects(qr, offset)
            /\ ReaderRejectsBytes(br, offset)
            /\ ReaderRejectsNumbers(br, offset)

\* readInt8(-1) has failed on the BufferQueueReader and has returned on the
\* BufferReader, from which bytes were consumed
C18_Witness ==
    /\ ret.op = "readInt8"
    /\ rret.op = "readInt8"
    /\ ret.threw
    /\ ~rret.threw
    /\ br.offset > 0
    /\ br.length = 0

(***************************************************************************)
(* Bits.  The pair of readers over bytes whose bits tell the bit order: 1  *)
(* (bit 0 alone) and 0xB2 (bits 1, 4, 5 and 7).                            *)
(***************************************************************************)
BitBytes == {1, 178}

InitBits ==
    \E data \in UNION {[1..n -> BitBytes] : n \in 0..MaxLen} :
        \E cuts \in SUBSET (1..(Len(data) - 1)) :
            /\ qr = BufferQueueReader_push(BufferQueueReader_new,
                                           BufferArgs(Split(data, cuts, 1))).r
            /\ br = BufferReader_new(data)
            /\ pushed = data
            /\ shifted = <<>>
            /\ bb = BufferBuilder_new
            /\ nextTick = 0
            /\ ret = NoCall
            /\ rret = NoCall

NextBits == Skip \/ ShiftByte \/ ShiftBits \/ ReadBits \/ Continue

SpecBits == InitBits /\ [][NextBits]_vars

(***************************************************************************)
(* C19.  On both readers, readBits(offset, count) and shiftBits(count)     *)
(* with 1 <= count <= 8 * (available bytes) return count booleans, of      *)
(* which element i is bit (i mod 8), counted from the least significant    *)
(* bit, of the byte at the relative index offset + floor(i / 8), in        *)
(* whichever buffer that byte lies; shiftBits decreases length by          *)
(* ceil(count / 8).                                                        *)
(***************************************************************************)
\* bit k of byteValue, bit 0 the least significant
Bit(byteValue, k) == (byteValue \div Pow2(k)) % 2 = 1

BitsOf(unread, offset, count) ==
    [i \in 1..count |-> Bit(unread[offset + ((i - 1) \div 8) + 1], (i - 1) % 8)]

ReadsBits(result, reader, unread, offset, count) ==
    /\ ~result.threw
    /\ result.val = BitsOf(unread, offset, count)
    /\ result.r = reader

ShiftsBits(result, length, unread, unreadAfter, count) ==
    /\ ~result.threw
    /\ result.val = BitsOf(unread, 0, count)
    /\ result.r.length = length - ((count + 7) \div 8)
    /\ unreadAfter = Drop(unread, (count + 7) \div 8)

C19_BitsAreLeastSignificantFirst ==
    Ready =>
        /\ \A count \in 1..(8 * qr.length) :
            LET s == BufferQueueReader_shiftBits(qr, count)
                t == BufferReader_shiftBits(br, count)
            IN
            /\ ShiftsBits(s, qr.length, QueueUnread(qr), QueueUnread(s.r), count)
            /\ ShiftsBits(t, br.length, ReaderUnread(br), ReaderUnread(t.r), count)
        /\ \A offset \in 0..(qr.length - 1) :
            \A count \in 1..(8 * (qr.length - offset)) :
                /\ ReadsBits(BufferQueueReader_readBits(qr, offset, count), qr,
                             QueueUnread(qr), offset, count)
                /\ ReadsBits(BufferReader_readBits(br, offset, count), br,
                             ReaderUnread(br), offset, count)

\* shiftBits(9) has returned the bits of 0xB2 and the lowest bit of 0x01 from
\* two buffers of the queue, the first of them partly read before the call
C19_Witness ==
    /\ ret.op = "shiftBits"
    /\ rret.op = "shiftBits"
    /\ ~ret.threw
    /\ ret.val = <<FALSE, TRUE, FALSE, FALSE, TRUE, TRUE, FALSE, TRUE, TRUE>>
    /\ rret.val = ret.val
    /\ br.offset = 3
    /\ qr.offset = 1
    /\ Len(qr.buffers[1]) = 2
    /\ qr.length = 1

(***************************************************************************)
(* Building a frame and reading it back, as the functional tests do: the   *)
(* caller pushes values into a builder, hands builder.toBuffer() to both   *)
(* readers, and shifts the values back with the method and byte order each *)
(* was pushed with.                                                        *)
(***************************************************************************)
\* the transactionId, protocolId, length, address and quantity of the MODBUS
\* frame, and the ends of the range
UInt16Values == {0, 1, 6, 4096, 43981, 65535}

\* its unitId and functionCode, and the ends of the range
ByteValues == {0, 3, 15, 255}

\* the readers have not been given a buffer yet
NotBuilt == br.buffer = <<>>

PushUInt16 ==
    /\ Ready
    /\ NotBuilt
    /\ bb.length + 2 <= MaxLen
    /\ \E numberValue \in {Number(n) : n \in UInt16Values \cup {-1, 65536}}
                            \cup {NumberNaN} :
        \E littleEndian \in BOOLEAN :
            LET a == BufferBuilder_pushUInt16(bb, numberValue, littleEndian) IN
            /\ bb' = a.r
            /\ ret' = Called("pushUInt16", a)
    /\ UNCHANGED <<qr, br, rret, pushed, shifted, nextTick>>

PushByte ==
    /\ Ready
    /\ NotBuilt
    /\ bb.length + 1 <= MaxLen
    /\ \E byteValue \in {Number(n) : n \in ByteValues \cup {-1, 256}}
                          \cup {NumberNaN} :
        LET a == BufferBuilder_pushByte(bb, byteValue) IN
        /\ bb' = a.r
        /\ ret' = Called("pushByte", a)
    /\ UNCHANGED <<qr, br, rret, pushed, shifted, nextTick>>

\* new BufferReader(builder.toBuffer()), and a queue reader of the same buffer
ToBuffer ==
    LET buffer == BufferBuilder_toBuffer(bb).val IN
    /\ Ready
    /\ NotBuilt
    /\ bb.length > 0
    /\ qr' = BufferQueueReader_push(BufferQueueReader_new,
                                    BufferArgs(<<buffer>>)).r
    /\ br' = BufferReader_new(buffer)
    /\ pushed' = buffer
    /\ ret' = Called("toBuffer", Return(qr, undefined))
    /\ UNCHANGED <<rret, shifted, bb, nextTick>>

\* the next expect(reader.shift...()) of the test
ShiftPushed ==
    LET next == bb.data[Len(shifted) + 1]
        a == IF next.method = "pushByte"
             THEN BufferQueueReader_shiftByte(qr)
             ELSE BufferQueueReader_shiftUInt16(qr, next.littleEndian)
        b == IF next.method = "pushByte"
             THEN BufferReader_shiftByte(br)
             ELSE BufferReader_shiftUInt16(br, next.littleEndian)
        op == IF next.method = "pushByte" THEN "shiftByte" ELSE "shiftUInt16"
    IN  /\ Ready
        /\ ~NotBuilt
        /\ Len(shifted) < Len(bb.data)
        /\ qr' = a.r
        /\ ret' = Called(op, a)
        /\ br' = b.r
        /\ rret' = Called(op, b)
        /\ shifted' = IF a.threw THEN shifted ELSE Append(shifted, a.val)
        /\ UNCHANGED <<pushed, bb, nextTick>>

NextBuilder == PushUInt16 \/ PushByte \/ ToBuffer \/ ShiftPushed \/ Continue

SpecBuilder == InitEmpty /\ [][NextBuilder]_vars

(***************************************************************************)
(* C20: for every T in 0..65535 and both byte orders, the buffer of a      *)
(* builder that did pushUInt16(T, littleEndian) has 2 bytes and            *)
(* shiftUInt16(littleEndian) of a reader of that buffer returns T; and the *)
(* values pushed in sequence are shifted back in the same order with the   *)
(* same values, by both readers.                                           *)
(***************************************************************************)
\* T pushed alone into a new builder comes back from both readers
RoundTrips(T, littleEndian) ==
    LET b == BufferBuilder_pushUInt16(BufferBuilder_new, Number(T), littleEndian)
        buffer == BufferBuilder_toBuffer(b.r).val
        r == BufferReader_shiftUInt16(BufferReader_new(buffer), littleEndian)
        q == BufferQueueReader_shiftUInt16(
                 BufferQueueReader_push(BufferQueueReader_new,
                                        BufferArgs(<<buffer>>)).r,
                 littleEndian)
    IN  /\ ~b.threw
        /\ Len(buffer) = 2
        /\ ~r.threw /\ r.val = T
        /\ ~q.threw /\ q.val = T

\* what has been shifted so far is what was pushed, value by value
ShiftedInOrder ==
    /\ Len(shifted) <= Len(bb.data)
    /\ \A k \in 1..Len(shifted) : shifted[k] = bb.data[k].value

\* a shift of a pushed value succeeds and returns the same from both readers
ShiftReturned ==
    ret.op \in {"shiftByte", "shiftUInt16"} =>
        /\ ~ret.threw /\ ~rret.threw
        /\ ret.val = shifted[Len(shifted)]
        /\ rret.val = ret.val

C20_BuilderRoundTrip ==
    /\ (Ready /\ bb = BufferBuilder_new) =>
           \A T \in 0..65535 : \A littleEndian \in BOOLEAN :
               RoundTrips(T, littleEndian)
    /\ ShiftedInOrder
    /\ ShiftReturned

\* pushUInt16(0xABCD).pushByte(0x0F) was built and read back: 43981, then 15
C20_Witness ==
    /\ Len(bb.data) = 2
    /\ bb.data[1].method = "pushUInt16" /\ bb.data[2].method = "pushByte"
    /\ pushed = <<171, 205, 15>>
    /\ shifted = <<43981, 15>>
    /\ rret.op = "shiftByte" /\ rret.val = 15

(***************************************************************************)
(* Building bit arrays and reading them back: pushBits, toBuffer, and      *)
(* readBits at the byte where each array starts.                           *)
(***************************************************************************)
Array(elements) == [isArray |-> TRUE, elements |-> elements]

NotAnArray == [isArray |-> FALSE, elements |-> <<>>]

\* bit arrays of n bits: all set, and only the last one set
BitArrays(n) == {[i \in 1..n |-> TRUE], [i \in 1..n |-> i = n]}

\* every array of n bits
AllBitArrays(n) == [1..n -> BOOLEAN]

PushBits ==
    /\ Ready
    /\ NotBuilt
    /\ \E n \in {c \in 0..(8 * (MaxLen - bb.length)) : c % 8 \in {0, 1, 7}} :
        \E bitsArray \in {Array(bits) : bits \in BitArrays(n)} \cup {NotAnArray} :
            LET a == BufferBuilder_pushBits(bb, bitsArray) IN
            /\ bb' = a.r
            /\ ret' = Called("pushBits", a)
    /\ UNCHANGED <<qr, br, rret, pushed, shifted, nextTick>>

\* the bytes that the first k stored functions take
RECURSIVE WidthOf(_, _)
WidthOf(data, k) ==
    IF k = 0 THEN 0
    ELSE WidthOf(data, k - 1) + Write(data[k], <<>>, 0).count

\* readBits(offset, count) of the next array that was pushed
ReadPushedBits ==
    LET k == Len(shifted) + 1
        offset == WidthOf(bb.data, k - 1)
        a == BufferQueueReader_readBits(qr, offset, Len(bb.data[k].value))
        b == BufferReader_readBits(br, offset, Len(bb.data[k].value))
    IN  /\ Ready
        /\ ~NotBuilt
        /\ Len(shifted) < Len(bb.data)
        /\ qr' = a.r
        /\ ret' = Called("readBits", a)
        /\ br' = b.r
        /\ rret' = Called("readBits", b)
        /\ shifted' = IF a.threw THEN shifted ELSE Append(shifted, a.val)
        /\ UNCHANGED <<pushed, bb, nextTick>>

NextBuilderBits == PushBits \/ ToBuffer \/ ReadPushedBits \/ Continue

SpecBuilderBits == InitEmpty /\ [][NextBuilderBits]_vars

(***************************************************************************)
(* C21: for every non-empty array of bits, of a length that is a multiple  *)
(* of 8 or not, pushBits(bits), toBuffer and readBits(0, bits.length) on a *)
(* reader of that buffer return the bits that were pushed, as booleans,    *)
(* and no padding bit.                                                     *)
(***************************************************************************)
\* bits pushed alone into a new builder come back from both readers
BitsRoundTrip(bits) ==
    LET b == BufferBuilder_pushBits(BufferBuilder_new, Array(bits))
        buffer == BufferBuilder_toBuffer(b.r)
        r == BufferReader_readBits(BufferReader_new(buffer.val), 0, Len(bits))
        q == BufferQueueReader_readBits(
                 BufferQueueReader_push(BufferQueueReader_new,
                                        BufferArgs(<<buffer.val>>)).r,
                 0, Len(bits))
    IN  /\ ~b.threw /\ ~buffer.threw
        /\ Len(buffer.val) = CeilDiv8(Len(bits))
        /\ ~r.threw /\ r.val = bits
        /\ ~q.threw /\ q.val = bits

\* what has been read so far is what was pushed, array by array
BitsReadInOrder ==
    /\ Len(shifted) <= Len(bb.data)
    /\ \A k \in 1..Len(shifted) : shifted[k] = bb.data[k].value

BitsReturned ==
    ret.op = "readBits" =>
        /\ ~ret.threw /\ ~rret.threw
        /\ ret.val = shifted[Len(shifted)]
        /\ rret.val = ret.val

C21_PushBitsReadBitsRoundTrip ==
    /\ (Ready /\ bb = BufferBuilder_new) =>
           \A n \in 1..((2 * MaxLen) + 2) : \A bits \in AllBitArrays(n) :
               BitsRoundTrip(bits)
    /\ BitsReadInOrder
    /\ BitsReturned

\* nine bits, the last one set, were pushed and read back from two bytes
C21_Witness ==
    /\ Len(bb.data) = 1
    /\ bb.data[1].value = [i \in 1..9 |-> i = 9]
    /\ pushed = <<0, 1>>
    /\ ret.op = "readBits"
    /\ ret.val = [i \in 1..9 |-> i = 9]
    /\ rret.val = ret.val

(***************************************************************************)
(* Building with every push method.  BuilderCalls lists the calls a caller *)
(* makes: for each method one that stores a function, the ones that store  *)
(* nothing, and one that fails.                                            *)
(***************************************************************************)
StringArg(chars) == [isString |-> TRUE, chars |-> chars]

NotAString == [isString |-> FALSE, chars |-> <<>>]

BufferArg(bytes) == [isBuffer |-> TRUE, bytes |-> bytes]

PushCall(method, value, littleEndian, encoding) ==
    [method |-> method, value |-> value, littleEndian |-> littleEndian,
     encoding |-> encoding]

\* 'a' is the character 97
BuilderCalls ==
    << PushCall("pushBits", Array([i \in 1..9 |-> i \in {1, 9}]), FALSE, "undefined"),
       PushCall("pushBits", Array(<<>>), FALSE, "undefined"),
       PushCall("pushBits", NotAnArray, FALSE, "undefined"),
       PushCall("pushByte", Number(15), FALSE, "undefined"),
       PushCall("pushByte", Number(256), FALSE, "undefined"),
       PushCall("pushBytes", Array(<<1, 256>>), FALSE, "undefined"),
       PushCall("pushBytes", Array(<<>>), FALSE, "undefined"),
       PushCall("pushBytes", NotAnArray, FALSE, "undefined"),
       PushCall("pushBuffer", BufferArg(<<0, 255, 1>>), FALSE, "undefined"),
       PushCall("pushBuffer", BufferArg(<<>>), FALSE, "undefined"),
       PushCall("pushBuffer", NotABuffer, FALSE, "undefined"),
       PushCall("pushString", StringArg(<<97>>), FALSE, "undefined"),
       PushCall("pushString", StringArg(<<97>>), FALSE, "utf-666"),
       PushCall("pushString", StringArg(<<>>), FALSE, "utf8"),
       PushCall("pushString", NotAString, FALSE, "undefined"),
       PushCall("pushZeroString", StringArg(<<97>>), FALSE, "undefined"),
       PushCall("pushZeroString", StringArg(<<>>), FALSE, "undefined"),
       PushCall("pushZeroString", NotAString, FALSE, "undefined"),
       PushCall("pushInt8", Number(-1), FALSE, "undefined"),
       PushCall("pushInt8", Number(128), FALSE, "undefined"),
       PushCall("pushInt16", Number(-2), TRUE, "undefined"),
       PushCall("pushInt16", Number(-32769), FALSE, "undefined"),
       PushCall("pushInt32", Number(-2147483647 - 1), FALSE, "undefined"),
       PushCall("pushInt32", NumberNaN, FALSE, "undefined"),
       PushCall("pushUInt8", Number(255), FALSE, "undefined"),
       PushCall("pushUInt8", Number(-1), FALSE, "undefined"),
       PushCall("pushUInt16", Number(43981), FALSE, "undefined"),
       PushCall("pushUInt16", Number(65536), TRUE, "undefined"),
       PushCall("pushUInt32", Number(19088743), TRUE, "undefined"),
       PushCall("pushUInt32", Undefined, TRUE, "undefined") >>

\* builder[call.method](call.value, ...)
Apply(b, call) ==
    CASE call.method = "pushBits" -> BufferBuilder_pushBits(b, call.value)
      [] call.method = "pushByte" -> BufferBuilder_pushByte(b, call.value)
      [] call.method = "pushBytes" -> BufferBuilder_pushBytes(b, call.value)
      [] call.method = "pushBuffer" -> BufferBuilder_pushBuffer(b, call.value)
      [] call.method = "pushString" ->
            BufferBuilder_pushString(b, call.value, call.encoding)
      [] call.method = "pushZeroString" ->
            BufferBuilder_pushZeroString(b, call.value, call.encoding)
      [] call.method = "pushInt8" -> BufferBuilder_pushInt8(b, call.value)
      [] call.method = "pushInt16" ->
            BufferBuilder_pushInt16(b, call.value, call.littleEndian)
      [] call.method = "pushInt32" ->
            BufferBuilder_pushInt32(b, call.value, call.littleEndian)
      [] call.method = "pushUInt8" -> BufferBuilder_pushUInt8(b, call.value)
      [] call.method = "pushUInt16" ->
            BufferBuilder_pushUInt16(b, call.value, call.littleEndian)
      [] OTHER -> BufferBuilder_pushUInt32(b, call.value, call.littleEndian)

BuilderPush ==
    /\ Ready
    /\ \E i \in 1..Len(BuilderCalls) :
        LET a == Apply(bb, BuilderCalls[i]) IN
        /\ a.r.length <= MaxLen
        /\ bb' = a.r
        /\ ret' = Called(BuilderCalls[i].method, a)
    /\ UNCHANGED <<qr, br, rret, pushed, shifted, nextTick>>

\* builder.toBuffer(), also straight after another toBuffer()
BuilderToBuffer ==
    LET a == BufferBuilder_toBuffer(bb) IN
    /\ ret.op \in {"none", "toBuffer"}
    /\ rret.op = "none"
    /\ bb' = a.r
    /\ ret' = Called("toBuffer", a)
    /\ UNCHANGED <<qr, br, rret, pushed, shifted, nextTick>>

NextBuild == BuilderPush \/ BuilderToBuffer \/ Continue

SpecBuild == InitEmpty /\ [][NextBuild]_vars

(***************************************************************************)
(* C22: after any sequence of successful and failed push calls, length is  *)
(* the sum of the byte widths of the stored operations, and toBuffer()     *)
(* returns a buffer of exactly length bytes in which the i-th operation    *)
(* occupies the bytes that start at the sum of the widths of the           *)
(* operations before it: every byte is written by exactly one operation,   *)
(* and the operations appear in the order they were pushed.                *)
(***************************************************************************)
\* the number of bytes that a push method adds to length for its value
ByteWidth(push) ==
    CASE push.method = "pushBits" -> (Len(push.value) + 7) \div 8
      [] push.method \in {"pushByte", "pushInt8", "pushUInt8"} -> 1
      [] push.method \in {"pushBytes", "pushBuffer"} -> Len(push.value)
      [] push.method = "pushString" -> Len(Utf8(push.value.string))
      [] push.method \in {"pushInt16", "pushUInt16"} -> 2
      [] OTHER -> 4

RECURSIVE SumOfWidths(_, _)
SumOfWidths(data, k) ==
    IF k = 0 THEN 0 ELSE SumOfWidths(data, k - 1) + ByteWidth(data[k])

\* the bytes of one operation written alone into a buffer of its width
BytesOf(push) ==
    Write(push, [i \in 1..ByteWidth(push) |-> Filler], 0).buffer

LengthIsSumOfWidths == bb.length = SumOfWidths(bb.data, Len(bb.data))

ToBufferLaysOutOperations ==
    LET buffer == BufferBuilder_toBuffer(bb) IN
    /\ ~buffer.threw
    /\ Len(buffer.val) = bb.length
    /\ \A i \in 1..Len(bb.data) :
        SubSeq(buffer.val, SumOfWidths(bb.data, i - 1) + 1,
               SumOfWidths(bb.data, i)) = BytesOf(bb.data[i])
    /\ \A k \in 1..Len(buffer.val) : buffer.val[k] # Filler

C22_LengthAndLayout == LengthIsSumOfWidths /\ ToBufferLaysOutOperations

\* toBuffer() threw on a builder whose pushes all succeeded
C22_Witness ==
    /\ ret.op = "toBuffer"
    /\ ret.threw
    /\ bb.length = Len(bb.data)
    /\ Len(bb.data) = 2
    /\ bb.data[1].method = "pushByte"
    /\ bb.data[2].method = "pushString"
    /\ bb.data[2].value.encoding = "utf-666"

\* the same on every builder whose strings were pushed with an encoding that
\* node knows
EncodingsKnown ==
    \A i \in 1..Len(bb.data) :
        bb.data[i].method = "pushString" => isEncoding(bb.data[i].value.encoding)

LayoutWithKnownEncodings == EncodingsKnown => C22_LengthAndLayout

(***************************************************************************)
(* C23: toBuffer() does not change the builder's length or its list of     *)
(* operations: two calls with no push in between give the same result,     *)
(* byte for byte, and a call made after further pushes returns a buffer    *)
(* that starts with the bytes of the earlier result.                       *)
(***************************************************************************)
IsPrefix(s, t) == Len(s) <= Len(t) /\ SubSeq(t, 1, Len(s)) = s

\* a toBuffer() call: the builder is as before, and the result is the result
\* of the toBuffer() call that came straight before it
ToBufferStep ==
    ret'.op = "toBuffer" =>
        /\ bb'.length = bb.length
        /\ bb'.data = bb.data
        /\ ret.op = "toBuffer" => (ret'.threw = ret.threw /\ ret'.val = ret.val)

\* a push: what toBuffer() returns after it starts with what toBuffer()
\* returned before it
PushKeepsEarlierBytes ==
    ret'.op \notin {"none", "toBuffer"} =>
        LET earlier == BufferBuilder_toBuffer(bb)
            later == BufferBuilder_toBuffer(bb')
        IN  (~earlier.threw /\ ~later.threw) =>
                IsPrefix(earlier.val, later.val)

ToBufferReadsOnlyStep == ToBufferStep /\ PushKeepsEarlierBytes

ByteArrays ==
    LET Elements == {0, 255, 256, -1, NaN} IN
    [1..1 -> Elements] \cup [1..2 -> Elements]

IsByte(element) == ~isNaN(element) /\ 0 <= element /\ element <= 255

PushBytesRejectsInvalidElements ==
    Ready =>
        \A bytesArray \in ByteArrays :
            (\E i \in 1..Len(bytesArray) : ~IsByte(bytesArray[i])) =>
                FailsUnchanged(BufferBuilder_pushBytes(bb, Array(bytesArray)), bb)

PushedBytesAreInTheBuffer ==
    LET buffer == BufferBuilder_toBuffer(bb) IN
    \A i \in 1..Len(bb.data) :
        (bb.data[i].method = "pushBytes" /\ ~buffer.threw) =>
            SubSeq(buffer.val, SumOfWidths(bb.data, i - 1) + 1,
                   SumOfWidths(bb.data, i)) = bb.data[i].value

C25_PushBytesValidatesElements ==
    PushBytesRejectsInvalidElements /\ PushedBytesAreInTheBuffer

\* pushBytes([1, 256]) succeeded, and toBuffer() returned 0 for the 256
C25_Witness ==
    /\ ret.op = "toBuffer"
    /\ ~ret.threw
    /\ Len(bb.data) = 1
    /\ bb.data[1].method = "pushBytes"
    /\ bb.data[1].value = <<1, 256>>
    /\ ret.val = <<1, 0>>

(***************************************************************************)
(* C26: pushBits([]), pushBytes([]), pushBuffer(empty buffer) and          *)
(* pushString('') store nothing and leave length unchanged, while          *)
(* pushZeroString('') adds exactly 1 to length and contributes a single    *)
(* zero byte; in general pushZeroString(s) yields the same bytes as        *)
(* pushString(s) followed by pushByte(0).                                  *)
(***************************************************************************)
\* '', 'a', 'ab' and the two-byte character U+00E9
Strings == {<<>>, <<97>>, <<97, 98>>, <<233>>}

EncodingArgs == {"undefined", "utf8", "utf-666"}

ReturnsUnchanged(result) == ~result.threw /\ result.r = bb

EmptyPushesStoreNothing ==
    /\ ReturnsUnchanged(BufferBuilder_pushBits(bb, Array(<<>>)))
    /\ ReturnsUnchanged(BufferBuilder_pushBytes(bb, Array(<<>>)))
    /\ ReturnsUnchanged(BufferBuilder_pushBuffer(bb, BufferArg(<<>>)))
    /\ \A encoding \in EncodingArgs :
        ReturnsUnchanged(BufferBuilder_pushString(bb, StringArg(<<>>), encoding))

\* the result of toBuffer() is what it was before the call, and then bytes
Appends(result, bytes) ==
    LET before == BufferBuilder_toBuffer(bb)
        after == BufferBuilder_toBuffer(result.r)
    IN  /\ ~result.threw
        /\ result.r.length = bb.length + Len(bytes)
        /\ after.threw = before.threw
        /\ ~after.threw => after.val = before.val \o bytes

EmptyZeroStringAppendsZero ==
    \A encoding \in EncodingArgs :
        LET a == BufferBuilder_pushZeroString(bb, StringArg(<<>>), encoding) IN
        /\ Appends(a, <<0>>)
        /\ Len(a.r.data) = Len(bb.data) + 1

ZeroStringIsStringThenZero ==
    \A string \in Strings : \A encoding \in EncodingArgs :
        LET z == BufferBuilder_pushZeroString(bb, StringArg(string), encoding)
            s == BufferBuilder_pushString(bb, StringArg(string), encoding)
            sz == BufferBuilder_pushByte(s.r, Number(0))
        IN  /\ ~z.threw /\ ~s.threw /\ ~sz.threw
            /\ z.r.length = sz.r.length
            /\ BufferBuilder_toBuffer(z.r) = BufferBuilder_toBuffer(sz.r)
            /\ (encoding # "utf-666" \/ string = <<>>) =>
                   Appends(z, Utf8(string) \o <<0>>)

\* what a pushZeroString call left: the zero byte is the last operation
ZeroStringPushed ==
    (ret.op = "pushZeroString" /\ ~ret.threw) =>
        /\ bb.data[Len(bb.data)].method = "pushByte"
        /\ bb.data[Len(bb.data)].value = 0

C26_EmptyPushesAndZeroString ==
    /\ ZeroStringPushed
    /\ Ready =>
        /\ EmptyPushesStoreNothing
        /\ EmptyZeroStringAppendsZero
        /\ ZeroStringIsStringThenZero

\* pushZeroString('') on a builder of one byte made it two bytes
C26_Witness ==
    /\ ret.op = "pushZeroString"
    /\ ~ret.threw
    /\ bb.length = 2
    /\ Len(bb.data) = 2
    /\ bb.data[1].method = "pushByte"
    /\ bb.data[2].method = "pushByte"
    /\ bb.data[1].value = 15
    /\ bb.data[2].value = 0

(***************************************************************************)
(* The numeric push methods with numbers of every kind: integers at the    *)
(* ends of the ranges, numbers with a fraction, numbers that convert to    *)
(* exponent notation, and values that are not numbers.                     *)
(***************************************************************************)
PushNumber(method, numberValue, littleEndian) ==
    LET a == Apply(bb, PushCall(method, numberValue, littleEndian, "undefined")) IN
    /\ Ready
    /\ a.r.length <= MaxLen
    /\ bb' = a.r
    /\ ret' = Called(method, a)
    /\ UNCHANGED <<qr, br, rret, pushed, shifted, nextTick>>

PushInt8 ==
    \E numberValue \in {Number(-128), Decimal(12, <<"3", "4">>), OneE_7,
                        Number(128), StringFoo} :
        PushNumber("pushInt8", numberValue, FALSE)

PushInt16 ==
    \E numberValue \in {Number(-32768), Decimal(-12, <<"5">>), Number(32768),
                        NumberNaN} :
        \E littleEndian \in BOOLEAN :
            PushNumber("pushInt16", numberValue, littleEndian)

PushInt32 ==
    \E numberValue \in {Number(2147483647), Decimal(12, <<"3", "4">>), Undefined} :
        \E littleEndian \in BOOLEAN :
            PushNumber("pushInt32", numberValue, littleEndian)

PushUInt8 ==
    \E numberValue \in {Number(255), OneE21, String12abc, Number(-1)} :
        PushNumber("pushUInt8", numberValue, FALSE)

PushUInt32 ==
    \E numberValue \in {Number(19088743), OneE21, Number(-1)} :
        \E littleEndian \in BOOLEAN :
            PushNumber("pushUInt32", numberValue, littleEndian)

NextNumbers ==
    \/ PushInt8
    \/ PushInt16
    \/ PushInt32
    \/ PushUInt8
    \/ PushUInt32
    \/ BuilderToBuffer
    \/ Continue

SpecNumbers == InitEmpty /\ [][NextNumbers]_vars

\* the values that the claims about the numeric methods are checked with
NumberValues ==
    {Number(n) : n \in {-2147483647 - 1, -32769, -32768, -129, -128, -1, 0, 1,
                        127, 128, 255, 256, 32767, 32768, 65535, 65536,
                        2147483647}}
    \cup {Decimal(12, <<"3", "4">>), Decimal(-12, <<"3", "4">>),
          Decimal(127, <<"5">>), OneE_7, OneE21, NumberNaN, Undefined,
          StringFoo, String12, String12abc}

NumericMethods ==
    {"pushByte", "pushInt8", "pushInt16", "pushInt32", "pushUInt8", "pushUInt16",
     "pushUInt32"}

\* the range of a method's type; the model has no integer above the largest
\* pushUInt32 takes but the huge ones
RangeMin(method) ==
    CASE method = "pushInt8" -> -128
      [] method = "pushInt16" -> -32768
      [] method = "pushInt32" -> -2147483647 - 1
      [] OTHER -> 0

RangeMax(method) ==
    CASE method \in {"pushByte", "pushUInt8"} -> 255
      [] method = "pushInt8" -> 127
      [] method = "pushInt16" -> 32767
      [] method = "pushUInt16" -> 65535
      [] OTHER -> 2147483647

InRange(method, value) ==
    /\ ~isNaN(value.integer)
    /\ ~value.huge
    /\ RangeMin(method) <= value.integer
    /\ value.integer <= RangeMax(method)

PushesNumber(method, value) == Apply(bb, PushCall(method, value, FALSE, "undefined"))

(***************************************************************************)
(* C24: pushByte, pushInt8, pushInt16, pushInt32, pushUInt8, pushUInt16    *)
(* and pushUInt32 called with a value that is not numeric, or with a value *)
(* outside the range of the type, fail and leave the builder's length and  *)
(* list of operations unchanged, so that toBuffer() holds only the values  *)
(* of the pushes that succeeded.                                           *)
(***************************************************************************)
\* every stored number is in the range of the method that stored it
StoredNumbersInRange ==
    \A i \in 1..Len(bb.data) :
        bb.data[i].method \in NumericMethods =>
            /\ RangeMin(bb.data[i].method) <= bb.data[i].value
            /\ bb.data[i].value <= RangeMax(bb.data[i].method)

C24_InvalidNumbersAreRejected ==
    /\ StoredNumbersInRange
    /\ Ready =>
        \A method \in NumericMethods : \A value \in NumberValues :
            ~InRange(method, value) =>
                FailsUnchanged(PushesNumber(method, value), bb)

\* pushUInt8(1e21) succeeded and stored 1
C24_Witness ==
    /\ ret.op = "pushUInt8"
    /\ ~ret.threw
    /\ bb.length = 1
    /\ bb.data[1].value = 1

(***************************************************************************)
(* C27: pushInt8, pushInt16 and pushInt32 called with a number that has a  *)
(* fraction and whose integer part is in range do not fail: they store the *)
(* integer that is left when the fraction is dropped (12.34 is written as  *)
(* 12) and add the width of the type to length.                            *)
(***************************************************************************)
SignedMethods == {"pushInt8", "pushInt16", "pushInt32"}

MethodWidth(method) ==
    CASE method = "pushInt8" -> 1 [] method = "pushInt16" -> 2 [] OTHER -> 4

StoresIntegerPart(method, value) ==
    LET a == PushesNumber(method, value) IN
    /\ ~a.threw
    /\ a.r.length = bb.length + MethodWidth(method)
    /\ Len(a.r.data) = Len(bb.data) + 1
    /\ a.r.data[Len(a.r.data)].value = value.integer
    /\ SubSeq(a.r.data, 1, Len(bb.data)) = bb.data

C27_FractionIsDropped ==
    Ready =>
        \A method \in SignedMethods : \A value \in NumberValues :
            (value.type = "number" /\ value.fraction /\ InRange(method, value))
                => StoresIntegerPart(method, value)

\* pushInt8(1e-7), whose integer part is 0, succeeded and stored 1
C27_Witness ==
    /\ ret.op = "pushInt8"
    /\ ~ret.threw
    /\ bb.length = 1
    /\ bb.data[1].value = 1

\* the numbers with a fraction that convert to decimal notation are stored as
\* their integer part
DecimalFractionIsDropped ==
    Ready =>
        \A method \in SignedMethods : \A value \in NumberValues \ {OneE_7} :
            (value.type = "number" /\ value.fraction /\ InRange(method, value))
                => StoresIntegerPart(method, value)

\* the values that convert to a decimal integer or to no number at all are
\* rejected when they are out of range
InvalidDecimalNumbersAreRejected ==
    Ready =>
        \A method \in NumericMethods :
            \A value \in NumberValues \ {OneE21, String12abc} :
                ~InRange(method, value) =>
                    FailsUnchanged(PushesNumber(method, value), bb)

(***************************************************************************)
(* C28: on a BufferQueueReader in any reachable state and for every        *)
(* relative offset o, each absolute read equals the corresponding shift    *)
(* after o bytes are skipped: readByte(o), readBytes(o, n), readBits(o, n),*)
(* readUInt16(o, le), readUInt32(o, le), readInt16(o, le) and              *)
(* readInt32(o, le) return what shiftByte(), shiftBytes(n), shiftBits(n),  *)
(* shiftUInt16(le), ... return on an identical reader after skip(o), and   *)
(* they fail in the same cases.                                            *)
(***************************************************************************)
\* the outcome of a read is the outcome of the shift made on the reader that
\* skip(o) leaves; a skip that fails is a failure of the whole
ReadIsShiftAfterSkip(read, skipped, shift) ==
    /\ read.threw = (skipped.threw \/ shift.threw)
    /\ ~read.threw => read.val = shift.val

ReadsAreShiftsAfterSkip(q, o) ==
    LET skipped == BufferQueueReader_skip(q, TRUE, o) IN
    /\ ReadIsShiftAfterSkip(BufferQueueReader_readByte(q, o), skipped,
                            BufferQueueReader_shiftByte(skipped.r))
    /\ \A n \in CountArgs(q.length) :
        ReadIsShiftAfterSkip(BufferQueueReader_readBytes(q, o, n), skipped,
                             BufferQueueReader_shiftBytes(skipped.r, n))
    /\ \A n \in BitCountArgs(q.length) :
        ReadIsShiftAfterSkip(BufferQueueReader_readBits(q, o, n), skipped,
                             BufferQueueReader_shiftBits(skipped.r, n))
    /\ \A le \in BOOLEAN :
        /\ ReadIsShiftAfterSkip(BufferQueueReader_readUInt16(q, o, le), skipped,
                                BufferQueueReader_shiftUInt16(skipped.r, le))
        /\ ReadIsShiftAfterSkip(BufferQueueReader_readUInt32(q, o, le), skipped,
                                BufferQueueReader_shiftUInt32(skipped.r, le))
        /\ ReadIsShiftAfterSkip(BufferQueueReader_readInt16(q, o, le), skipped,
                                BufferQueueReader_shiftInt16(skipped.r, le))
        /\ ReadIsShiftAfterSkip(BufferQueueReader_readInt32(q, o, le), skipped,
                                BufferQueueReader_shiftInt32(skipped.r, le))

C28_ReadIsShiftAfterSkip ==
    Ready => \A o \in AnyOffset \cup {NaN} : ReadsAreShiftsAfterSkip(qr, o)

\* a read at offset 1 of a reader of two buffers, one byte of the first used:
\* the two bytes read are the last of the first buffer and the first of the
\* second
C28_Witness ==
    /\ Len(qr.buffers) = 2
    /\ qr.offset = 1
    /\ qr.buffers[1] = <<0, 0, 255>>
    /\ qr.buffers[2] = <<0>>
    /\ ret.op = "readInt16"
    /\ ~ret.threw
    /\ ret.val = -256

(***************************************************************************)
(* The integers that four bytes stand for.                                 *)
(***************************************************************************)
\* bytes next to 0, to the sign bit and to 0xFF
ByteSamples == {0, 1, 127, 128, 255}

\* a reader of data pushed in chunks that end after the positions in cuts
ReaderOf(data, cuts) ==
    BufferQueueReader_push(BufferQueueReader_new,
                           BufferArgs(Split(data, cuts, 1))).r

\* the bytes with the most significant one first
MostSignificantFirst(bytes, littleEndian) ==
    IF littleEndian THEN Reverse(bytes) ELSE bytes

\* b1 * 256^(n-1) + ... + bn, for up to three bytes
RECURSIVE UnsignedOf(_)
UnsignedOf(bytes) ==
    IF bytes = <<>> THEN 0
    ELSE (UnsignedOf(SubSeq(bytes, 1, Len(bytes) - 1)) * 256) + bytes[Len(bytes)]

\* b1 * 2^24 + b2 * 2^16 + b3 * 2^8 + b4 as its two halves
Unsigned32Of(bytes) ==
    U32(UnsignedOf(SubSeq(bytes, 1, 2)), UnsignedOf(SubSeq(bytes, 3, 4)))

\* u when u < 2^(w-1) and u - 2^w otherwise, for the u of the bytes
SignedOf(bytes) ==
    ((IF bytes[1] >= 128 THEN bytes[1] - 256 ELSE bytes[1])
        * Pow2(8 * (Len(bytes) - 1))) + UnsignedOf(Tail(bytes))

InUInt32Range(value) ==
    /\ 0 <= value.hi /\ value.hi <= 65535
    /\ 0 <= value.lo /\ value.lo <= 65535

\* the unread bytes from offset o on, n of them
UnreadAt(q, o, n) == SubSeq(QueueUnread(q), o + 1, o + n)

(***************************************************************************)
(* C29: on a BufferQueueReader, shiftUInt32(le) and readUInt32(o, le)      *)
(* return, for every four bytes b0..b3 and every split into chunks, the    *)
(* non-negative integer b0*2^24 + b1*2^16 + b2*2^8 + b3 (big-endian) or    *)
(* b3*2^24 + b2*2^16 + b1*2^8 + b0 (little-endian), always in              *)
(* 0..4294967295: the 32-bit shifts never yield a negative or wrapped      *)
(* value, also when the most significant byte is 0x80 or more.             *)
(***************************************************************************)
ReturnsUInt32(result, bytes, littleEndian) ==
    /\ ~result.threw
    /\ InUInt32Range(result.val)
    /\ result.val = Unsigned32Of(MostSignificantFirst(bytes, littleEndian))

\* every four sample bytes in every split
UInt32OfEveryWord ==
    \A data \in [1..4 -> ByteSamples] : \A cuts \in SUBSET (1..3) :
        \A littleEndian \in BOOLEAN :
            /\ ReturnsUInt32(BufferQueueReader_shiftUInt32(ReaderOf(data, cuts),
                                                           littleEndian),
                             data, littleEndian)
            /\ ReturnsUInt32(BufferQueueReader_readUInt32(ReaderOf(data, cuts), 0,
                                                          littleEndian),
                             data, littleEndian)

\* every four unread bytes of the reader as it is
UInt32OfUnreadBytes ==
    \A littleEndian \in BOOLEAN :
        /\ qr.length >= 4 =>
            ReturnsUInt32(BufferQueueReader_shiftUInt32(qr, littleEndian),
                          UnreadAt(qr, 0, 4), littleEndian)
        /\ \A o \in 0..(qr.length - 4) :
            ReturnsUInt32(BufferQueueReader_readUInt32(qr, o, littleEndian),
                          UnreadAt(qr, o, 4), littleEndian)

C29_UInt32IsNeverNegative ==
    Ready =>
        /\ UInt32OfUnreadBytes
        /\ pushed = <<>> => UInt32OfEveryWord

\* readUInt32 returned 0xFF0000FF from four bytes in two buffers
C29_Witness ==
    /\ ret.op = "readUInt32"
    /\ ~ret.threw
    /\ Len(qr.buffers) = 2
    /\ QueueUnread(qr) = <<255, 0, 0, 255>>
    /\ ret.val = U32(65280, 255)

(***************************************************************************)
(* C30: on a BufferQueueReader, the signed accessors return the two's      *)
(* complement reading of the unsigned value u of the same bytes: for a     *)
(* width w of 8, 16 or 32 bits, readIntw and shiftIntw return u when       *)
(* u < 2^(w-1) and u - 2^w otherwise, so 0x80, 0x8000 and 0x80000000       *)
(* decode to -128, -32768 and -2147483648 and bytes of all ones decode to  *)
(* -1, in both byte orders and every split into chunks.                    *)
(***************************************************************************)
ReturnsInt(result, bytes, littleEndian) ==
    /\ ~result.threw
    /\ result.val = SignedOf(MostSignificantFirst(bytes, littleEndian))

\* the signed reads of a reader q at every offset, and its signed shifts
SignedReads(q) ==
    LET unread == QueueUnread(q) IN
    \A littleEndian \in BOOLEAN :
        /\ \A o \in 0..(q.length - 1) :
            ReturnsInt(BufferQueueReader_readInt8(q, o), UnreadAt(q, o, 1), FALSE)
        /\ \A o \in 0..(q.length - 2) :
            ReturnsInt(BufferQueueReader_readInt16(q, o, littleEndian),
                       UnreadAt(q, o, 2), littleEndian)
        /\ \A o \in 0..(q.length - 4) :
            ReturnsInt(BufferQueueReader_readInt32(q, o, littleEndian),
                       UnreadAt(q, o, 4), littleEndian)
        /\ q.length >= 1 =>
            ReturnsInt(BufferQueueReader_shiftInt8(q), UnreadAt(q, 0, 1), FALSE)
        /\ q.length >= 2 =>
            ReturnsInt(BufferQueueReader_shiftInt16(q, littleEndian),
                       UnreadAt(q, 0, 2), littleEndian)
        /\ q.length >= 4 =>
            ReturnsInt(BufferQueueReader_shiftInt32(q, littleEndian),
                       UnreadAt(q, 0, 4), littleEndian)

\* 0x80, 0x8000, 0x80000000 and all ones, whatever the split
SignedBounds ==
    \A cuts \in SUBSET (1..3) : \A littleEndian \in BOOLEAN :
        LET low == ReaderOf(MostSignificantFirst(<<128, 0, 0, 0>>, littleEndian),
                            cuts)
            ones == ReaderOf(<<255, 255, 255, 255>>, cuts)
        IN  /\ BufferQueueReader_readInt8(ReaderOf(<<128>>, {}), 0).val = -128
            /\ BufferQueueReader_shiftInt16(
                   ReaderOf(MostSignificantFirst(<<128, 0>>, littleEndian), cuts),
                   littleEndian).val = -32768
            /\ BufferQueueReader_shiftInt32(low, littleEndian).val = -2147483647 - 1
            /\ BufferQueueReader_readInt32(low, 0, littleEndian).val
                   = -2147483647 - 1
            /\ BufferQueueReader_shiftInt8(ones).val = -1
            /\ BufferQueueReader_readInt16(ones, 2, littleEndian).val = -1
            /\ BufferQueueReader_shiftInt32(ones, littleEndian).val = -1

C30_SignedReadsAreTwosComplement ==
    Ready =>
        /\ SignedReads(qr)
        /\ pushed = <<>> =>
            /\ SignedBounds
            /\ \A data \in [1..4 -> ByteSamples] : \A cuts \in SUBSET (1..3) :
                SignedReads(ReaderOf(data, cuts))

\* readInt32 returned -1 from four bytes of all ones in three buffers
C30_Witness ==
    /\ ret.op = "readInt32"
    /\ ~ret.threw
    /\ Len(qr.buffers) = 3
    /\ QueueUnread(qr) = <<255, 255, 255, 255>>
    /\ ret.val = -1

(***************************************************************************)
(* The memory of the Buffer that readBuffer returns.  buffer.slice(start,   *)
(* end) returns a Buffer over the memory of buffer; new Buffer(count) has   *)
(* memory of its own.  A Buffer's memory is [index, start]: the reader's    *)
(* buffer it is a part of (0 when it is memory of its own) and the number   *)
(* of bytes of that buffer before its first byte.                           *)
(***************************************************************************)
Memory(index, start) == [index |-> index, start |-> start]

\* readBuffer of a call that returns: the bytes returned and their memory
BufferQueueReader_readBuffer_result(q, offsetArg, countArg) ==
    LET read == BufferQueueReader_readBuffer(q, offsetArg, countArg)
        at == BufferQueueReader_seek(q, parseInt(offsetArg) + q.offset, 0)
    IN
    IF read.threw THEN read
    ELSE Return(q, [bytes |-> read.val,
                    memory |-> IF Len(q.buffers[at.index + 1])
                                      >= at.offset + parseInt(countArg)
                               THEN Memory(at.index + 1, at.offset)
                               ELSE Memory(0, 0)])

\* resultBuffer[i] = value, i counted from 1: the byte of the reader's buffer
\* that is the same memory changes with it
Buffer_set(q, memory, i, value) ==
    IF memory.index = 0 THEN q
    ELSE QueueReader([q.buffers EXCEPT ![memory.index] =
                          [@ EXCEPT ![memory.start + i] = value]],
                     q.offset, q.length)

\* var resultBuffer = reader.readBuffer(offset, count), which the caller keeps
ReadBufferKept ==
    /\ Ready
    /\ \E offset \in OffsetArgs(Length), count \in CountArgs(Length) :
        Call("readBuffer", BufferQueueReader_readBuffer_result(qr, offset, count),
             BufferReader_readBuffer(br, offset, count))

\* resultBuffer[i] = value by the caller of readBuffer
WriteReturned ==
    /\ ret.op = "readBuffer"
    /\ ~ret.threw
    /\ \E i \in 1..Len(ret.val.bytes) :
        /\ qr' = Buffer_set(qr, ret.val.memory, i, Filler)
        /\ ret' = [op |-> "write", threw |-> FALSE,
                   val |-> [ret.val EXCEPT !.bytes[i] = Filler]]
    /\ UNCHANGED <<br, rret, pushed, shifted, bb, nextTick>>

NextKept ==
    \/ ReadBufferKept
    \/ WriteReturned
    \/ ReadBytes
    \/ ShiftBytes
    \/ Skip
    \/ Continue

SpecKept == InitPair /\ [][NextKept]_vars

\* the pushed bytes that the reader has still to give
StillToRead == Drop(pushed, Len(pushed) - qr.length)

\* readBytes(0, length) returns the bytes that were pushed
LaterReadReturnsPushedBytes ==
    (Ready /\ qr.length > 0) =>
        BufferQueueReader_readBytes(qr, 0, qr.length).val = StillToRead

\* shiftBytes(length) returns the bytes that were pushed
LaterShiftReturnsPushedBytes ==
    (Ready /\ qr.length > 0) =>
        BufferQueueReader_shiftBytes(qr, qr.length).val = StillToRead

(***************************************************************************)
(* C31: readBuffer(offset, count) on a BufferQueueReader always returns a   *)
(* Buffer that shares no memory with a buffer of the reader: writing to the *)
(* returned Buffer never changes a byte that a later read or shift of the   *)
(* reader returns, whether the range lies in one buffer or spans several.   *)
(***************************************************************************)
C31_ReadBufferSharesNoMemory ==
    /\ LaterReadReturnsPushedBytes
    /\ LaterShiftReturnsPushedBytes

\* after a write to the Buffer that readBuffer(0, 1) returned from a reader
\* of one buffer, the reader gives the written byte for the pushed one
C31_Witness ==
    /\ Ready
    /\ pushed = <<0, 255>>
    /\ Len(qr.buffers) = 1
    /\ qr.length = 2
    /\ BufferQueueReader_readBytes(qr, 0, 2).val = <<Filler, 255>>

\* a returned Buffer that spans several buffers of the reader is memory of
\* its own
SpanningReadBufferIsOwned ==
    (Ready /\ Len(qr.buffers) >= 2) =>
        \A offset \in 0..Len(qr.buffers[1]) - qr.offset - 1 :
            \A count \in (Len(qr.buffers[1]) - qr.offset - offset + 1)
                             ..(qr.length - offset) :
                LET read == BufferQueueReader_readBuffer_result(qr, offset, count)
                IN  /\ ~read.threw
                    /\ read.val.memory.index = 0
                    /\ read.val.bytes = UnreadAt(qr, offset, count)

(***************************************************************************)
(* C32: pushBits(bits) with n = bits.length > 0 increases length by        *)
(* ceil(n / 8), and the bytes it gives to toBuffer have bit (i mod 8) of    *)
(* byte floor(i / 8) set exactly when bits[i] is truthy and every bit from  *)
(* position n on of the last byte clear; no byte after the ceil(n / 8)-th   *)
(* is written, also when n is a multiple of 8.                              *)
(***************************************************************************)
\* bytes hold the bits, least significant bit first, and zeros after them
HoldsBits(bytes, bits) ==
    /\ Len(bytes) = CeilDiv8(Len(bits))
    /\ \A i \in 0..((8 * Len(bytes)) - 1) :
        Bit(bytes[(i \div 8) + 1], i % 8) = (i < Len(bits) /\ bits[i + 1])

\* the stored function of pushBits(bits), called on a buffer of before +
\* ceil(n / 8) + 1 bytes at the offset before, writes the bytes of the bits
\* and no other byte
WritesOnlyItsBytes(bits, before) ==
    LET count == CeilDiv8(Len(bits))
        buffer == [i \in 1..(before + count + 1) |-> Filler]
        push == BufferBuilder_pushBits(BufferBuilder_new, Array(bits)).r.data[1]
        written == Write(push, buffer, before)
    IN  /\ ~written.threw
        /\ written.count = count
        /\ HoldsBits(SubSeq(written.buffer, before + 1, before + count), bits)
        /\ \A i \in (1..before) \cup {before + count + 1} :
            written.buffer[i] = Filler

\* every array of 1 to 2 * MaxLen + 1 bits
PushBitsOfEveryArray ==
    \A n \in 1..((2 * MaxLen) + 1) : \A bits \in AllBitArrays(n) :
        LET b == BufferBuilder_pushBits(BufferBuilder_new, Array(bits)) IN
        /\ ~b.threw
        /\ b.r.length = CeilDiv8(n)
        /\ ~BufferBuilder_toBuffer(b.r).threw
        /\ HoldsBits(BufferBuilder_toBuffer(b.r).val, bits)
        /\ \A before \in 0..1 : WritesOnlyItsBytes(bits, before)

\* pushBits on the builder as it is adds ceil(n / 8) to its length
PushBitsAddsItsBytes ==
    \A n \in {1, 7, 8, 9, 16} : \A bits \in BitArrays(n) :
        LET b == BufferBuilder_pushBits(bb, Array(bits)) IN
        /\ ~b.threw
        /\ b.r.length = bb.length + CeilDiv8(n)
        /\ Len(b.r.data) = Len(bb.data) + 1

\* the buffer that toBuffer returned holds the bits of every push in its place
BuiltBufferHoldsBits ==
    (~NotBuilt /\ \A k \in 1..Len(bb.data) : bb.data[k].method = "pushBits") =>
        /\ Len(pushed) = bb.length
        /\ \A k \in 1..Len(bb.data) :
            HoldsBits(SubSeq(pushed, WidthOf(bb.data, k - 1) + 1,
                             WidthOf(bb.data, k)),
                      bb.data[k].value)

C32_PushBitsPacksLeastSignificantFirst ==
    /\ Ready => PushBitsAddsItsBytes
    /\ (Ready /\ bb = BufferBuilder_new) => PushBitsOfEveryArray
    /\ BuiltBufferHoldsBits

\* eight bits, the last one set, then one set bit were pushed and toBuffer
\* returned two bytes
C32_Witness ==
    /\ ret.op = "toBuffer"
    /\ Len(bb.data) = 2
    /\ bb.data[1].value = [i \in 1..8 |-> i = 8]
    /\ bb.data[2].value = <<TRUE>>
    /\ bb.length = 2
    /\ pushed = <<128, 1>>

(***************************************************************************)
(* The random-doubles server.  One reader is shared by the 'data' handlers  *)
(* of all clients; a handler uses nothing of its client, so the model has   *)
(* one handler that any client's event runs.  A handler and a callback of   *)
(* process.nextTick each run to their end before another one starts.        *)
(***************************************************************************)
\* the largest number of bytes that the clients send in one behaviour
MaxReceived == 17

\* sizes of the chunks of the 'data' events: less than a double, a double,
\* two doubles
ChunkSizes == {1, 3, 8, 16}

\* the chunk of n bytes that arrives after received bytes: each byte is the
\* number of bytes that arrived up to it
ChunkAfter(received, n) == [i \in 1..n |-> (received + i) % 256]

\* buffer.readDoubleBE(0) of a buffer of 8 bytes: the sign, the biased
\* exponent and the 52 bits of the fraction (as 4 bits and 6 bytes) of the
\* double; every NaN is one value
Buffer_readDoubleBE(bytes) ==
    LET exponent == ((bytes[1] % 128) * 16) + (bytes[2] \div 16)
        fraction == <<bytes[2] % 16>> \o SubSeq(bytes, 3, 8)
    IN  IF exponent = 2047 /\ fraction # <<0, 0, 0, 0, 0, 0, 0>>
        THEN [sign |-> FALSE, exponent |-> 2047, fraction |-> <<1>>]
        ELSE [sign |-> bytes[1] >= 128, exponent |-> exponent,
              fraction |-> fraction]

\* this.shiftBuffer(8)[readDouble](0, false), big endian
BufferQueueReader_shiftDouble(q) ==
    LET b == BufferQueueReader_shiftBuffer(q, 8) IN
    IF b.threw THEN b ELSE Return(b.r, Buffer_readDoubleBE(b.val))

\* printDoubles with if for while: one double for each run
printDoubles_once(q, printed) ==
    IF q.length >= 8
    THEN LET s == BufferQueueReader_shiftDouble(q) IN
         IF s.threw THEN [r |-> s.r, threw |-> TRUE, val |-> printed]
         ELSE Return(s.r, Append(printed, s.val))
    ELSE Return(q, printed)

\* function printDoubles(): val is what console.log has printed when the
\* function returns or an error of shiftDouble leaves it
RECURSIVE printDoubles(_, _)
printDoubles(q, printed) ==
    IF q.length >= 8
    THEN LET s == BufferQueueReader_shiftDouble(q) IN
         IF s.threw THEN [r |-> s.r, threw |-> TRUE, val |-> printed]
         ELSE printDoubles(s.r, Append(printed, s.val))
    ELSE Return(q, printed)

InitServer == InitEmpty

\* client.on('data', function(buffer) {...}) of any client
Data ==
    \E n \in ChunkSizes :
        /\ Len(pushed) + n <= MaxReceived
        /\ LET a == BufferQueueReader_push(
                        qr, BufferArgs(<<ChunkAfter(Len(pushed), n)>>)) IN
           /\ qr' = a.r
           /\ ret' = Called("data", a)
           /\ nextTick' = IF a.threw THEN nextTick ELSE nextTick + 1
        /\ pushed' = pushed \o ChunkAfter(Len(pushed), n)
        /\ UNCHANGED <<br, rret, shifted, bb>>

\* the next callback of process.nextTick runs
PrintDoubles ==
    /\ nextTick > 0
    /\ LET p == printDoubles(qr, <<>>) IN
       /\ qr' = p.r
       /\ ret' = Called("printDoubles", p)
       /\ shifted' = shifted \o p.val
    /\ nextTick' = nextTick - 1
    /\ UNCHANGED <<br, rret, pushed, bb>>

NextServer == Data \/ PrintDoubles

SpecServer == InitServer /\ [][NextServer]_vars

(***************************************************************************)
(* C33: in the random-doubles server, for every interleaving of 'data'      *)
(* events and scheduled callbacks: each printDoubles run ends with          *)
(* reader.length < 8, shiftDouble is called only with at least 8 unread     *)
(* bytes and never fails, and once all scheduled callbacks have run the     *)
(* number of doubles shifted is floor(total bytes received / 8), each built *)
(* from 8 consecutive bytes in arrival order.                               *)
(***************************************************************************)
\* the k-th double of the bytes that arrived
DoubleOfReceived(k) == Buffer_readDoubleBE(SubSeq(pushed, (8 * k) - 7, 8 * k))

PrintDoublesEndsBelowEight ==
    (ret.op = "printDoubles") => (~ret.threw /\ qr.length < 8)

\* printDoubles on the reader as it is: no shiftDouble fails
ShiftDoubleNeverFails ==
    /\ ~printDoubles(qr, <<>>).threw
    /\ qr.length >= 8 => ~BufferQueueReader_shiftDouble(qr).threw

\* what was shifted is, double by double, what arrived
DoublesInArrivalOrder ==
    /\ 8 * Len(shifted) <= Len(pushed)
    /\ \A k \in 1..Len(shifted) : shifted[k] = DoubleOfReceived(k)
    /\ QueueUnread(qr) = Drop(pushed, 8 * Len(shifted))

AllDoublesShiftedWhenIdle ==
    (nextTick = 0) => Len(shifted) = Len(pushed) \div 8

C33_ServerShiftsEveryDouble ==
    /\ PrintDoublesEndsBelowEight
    /\ ShiftDoubleNeverFails
    /\ DoublesInArrivalOrder
    /\ AllDoublesShiftedWhenIdle

\* 17 bytes or more have arrived, the last scheduled callback has run, two
\* doubles were shifted and one byte waits for the next seven
C33_Witness ==
    /\ ret.op = "printDoubles"
    /\ nextTick = 0
    /\ Len(pushed) >= 17
    /\ Len(shifted) = 2
    /\ qr.length = 1
    /\ shifted[2] = Buffer_readDoubleBE(<<9, 10, 11, 12, 13, 14, 15, 16>>)

====
